---- MODULE Spec2Model ----
(***************************************************************************)
(* Model of the feedback agent's circuit breaker (CircuitBreakerManager)   *)
(* and of the pipeline services that call it.                              *)
(*                                                                         *)
(* Time is Date.now() in milliseconds, counted from the construction of    *)
(* the breaker.  Token amounts are the literal numbers of the source.      *)
(* The thresholds MAX_DAILY_TOKENS, MAX_TASK_TOKENS and                    *)
(* MAX_CONCURRENT_TASKS are constructor configuration: config is a         *)
(* variable, set at construction and never changed, and the breaker is run *)
(* with small values of them so that every limit is reached.               *)
(***************************************************************************)
EXTENDS Integers, Sequences, FiniteSets, TLC

VARIABLES
    now,            \* Date.now()
    advances,       \* how often the clock was advanced
    config,         \* this.config
    usage,          \* this.usage        {dailyTokens, dailyTokenReset, concurrentTasks, tasks}
    circuitState,   \* this.circuitState {isOpen, lastOpenTime, halfOpenTestCount, nextAllowedTime}
    events,         \* this.events, newest first
    ret,            \* the call of the breaker that returned last and what it returned
    admitT,         \* concurrent callers of check(): the tokens each of them requests
    admitOutcome,   \* concurrent callers of check(): what each of them was answered
    pairState,      \* callers of check() then release(): where each of them is
    pairTask,       \* callers of check() then release(): the task id each passed to check()
    sumActual,      \* callers of check() then release(): the actual tokens released so far
    agent,          \* one run of Agent.process: where it is and what it has decided
    stream,         \* one request of POST /api/agent/process/stream and its response
    duo,            \* two feedbacks processed concurrently: where each run is
    call,           \* invocations of callLLM: the one in progress and what it did
    req,            \* requests of POST /api/agent/process and /stream: the one being answered
    tester,         \* TestService.runTests from the browser tests on, inside Agent.process
    work,           \* the shared working directory and the runs of applyChanges on it
    disk,           \* the files VersionManager snapshots, and the snapshot directory
    store,          \* the lists of the Store (server/database.js), newest record first
    logs,           \* the task logs of the Store as records, and the last answer of GET /api/agent/task-logs
    stages,         \* one run of TestService.runTests: where it is and the stage rows of its task
    rw,             \* one call of the wrapper withRetry returns: its loop and the calls of fn it made
    cb,             \* a CircuitBreaker of server/retry.js and the execute calls in progress on it
    smart,          \* one call of SmartTestSystem.runSmartTest: its loop and what it returned
    repo            \* the git repository of CodeModifier: branches, HEAD and the working tree

----------------------------------------------------------------------------
(* DEFAULT_CONFIG, the fields the model keeps at their default.            *)
MAX_RETRIES == 3
TOKEN_WINDOW_MS == 86400000
HALF_OPEN_TEST_INTERVAL == 600000

(* Literals of the breaker's code.                                         *)
FAILURE_WINDOW_MS == 60000
TRIP_FAILURES == 5
EVENTS_CAP == 1000
TASK_EXPIRY_MS == 3600000

(* The thresholds the breaker is constructed with in the model: small, so  *)
(* that every limit is reached.                                            *)
SmallDailyTokens == 5000
SmallTaskTokens == 3000
SmallConcurrentTasks == 2

BreakerConfig ==
    [MAX_DAILY_TOKENS |-> SmallDailyTokens,
     MAX_TASK_TOKENS |-> SmallTaskTokens,
     MAX_CONCURRENT_TASKS |-> SmallConcurrentTasks,
     MAX_RETRIES |-> MAX_RETRIES,
     TOKEN_WINDOW_MS |-> TOKEN_WINDOW_MS,
     HALF_OPEN_TEST_INTERVAL |-> HALF_OPEN_TEST_INTERVAL]

(* null *)
Null == -1
NoTask == "null"

(* Bounds of the explorations.                                             *)
MaxEvents == 4
MaxAllowed == 3
MaxAdvances == 1
MaxCircuitEvents == 7
MaxCircuitAllowed == 2
MaxCircuitAdvances == 2
NumCallers == 5
NumPairs == 3

TaskIds == {"t1", "t2", "t3"}
CircuitTaskIds == {"t1", "t2"}
RetryTaskIds == {"t1"}
EstimateChoices == {0, 2000, 3500}
ActualChoices == {0, 700}
ClockSteps == {TASK_EXPIRY_MS + FAILURE_WINDOW_MS, TOKEN_WINDOW_MS}
CircuitEstimates == {2000, 5500}
CircuitActual == 700
CircuitClockSteps == {30000, HALF_OPEN_TEST_INTERVAL}
Callers == 1..NumCallers
AdmissionEstimates == {1500, 2000, 3500}
Pairs == 1..NumPairs
PairId(p) == IF p = 1 THEN "t1" ELSE IF p = 2 THEN "t2" ELSE "t3"

Max(a, b) == IF a >= b THEN a ELSE b

----------------------------------------------------------------------------
(* recordEvent: the event is put in front, the list is cut to 1000.  Of an *)
(* event the breaker only ever reads the timestamp and whether the status  *)
(* is 'ALLOWED'; the record keeps these two.  The status itself is what    *)
(* check() returns as the reason (ret.reason); id, service, action,        *)
(* tokens, taskId and the usage snapshot are written for getStatus() and   *)
(* decide nothing.                                                         *)
EventsAfter(evs, status, t) ==
    LET added == <<[allowed |-> (status = "ALLOWED"), timestamp |-> t]>> \o evs
    IN  IF Len(added) > EVENTS_CAP THEN SubSeq(added, 1, EVENTS_CAP) ELSE added

(* recordEvent, the filter: non-ALLOWED events younger than 60 s.          *)
RecentFailures(evs, t) ==
    Cardinality({i \in 1..Len(evs) :
        ~evs[i].allowed /\ t - evs[i].timestamp < FAILURE_WINDOW_MS})

openCircuit(cs, t) ==
    IF ~cs.isOpen
    THEN [cs EXCEPT !.isOpen = TRUE,
                    !.lastOpenTime = t,
                    !.nextAllowedTime = t + config.HALF_OPEN_TEST_INTERVAL]
    ELSE cs

(* recordEvent: [events, circuitState] after the event.                    *)
recordEvent(cs, evs, status, t) ==
    LET evs1 == EventsAfter(evs, status, t)
    IN  [events |-> evs1,
         circuitState |->
            IF status # "ALLOWED" /\ RecentFailures(evs1, t) >= TRIP_FAILURES
            THEN openCircuit(cs, t)
            ELSE cs]

----------------------------------------------------------------------------
(* check(): the four tests in the order of the code.                       *)
CircuitBlocks_Inverted(cs, t) == cs.isOpen /\ t > cs.nextAllowedTime

CircuitBlocks(cs, t) == cs.isOpen /\ t < cs.nextAllowedTime

HalfOpen_StaysOpen(cs, t) ==
    IF cs.isOpen /\ ~(t < cs.nextAllowedTime)
    THEN [cs EXCEPT !.halfOpenTestCount = 0]
    ELSE cs

(* the else branch of the isOpen test: open and due, the circuit is reset  *)
HalfOpen(cs, t) ==
    IF cs.isOpen /\ ~(t < cs.nextAllowedTime)
    THEN [cs EXCEPT !.isOpen = FALSE, !.halfOpenTestCount = 0]
    ELSE cs

DailyLimitHit(u, est) == u.dailyTokens + est > config.MAX_DAILY_TOKENS

ConcurrentLimitHit_OffByOne(u) == u.concurrentTasks > config.MAX_CONCURRENT_TASKS

ConcurrentLimitHit(u) == u.concurrentTasks >= config.MAX_CONCURRENT_TASKS

TaskLimitHit(u, est, taskId) ==
    /\ taskId # NoTask
    /\ taskId \in DOMAIN u.tasks
    /\ u.tasks[taskId].tokens + est > config.MAX_TASK_TOKENS

CheckStatus_ConcurrencyFirst(u, cs, t, est, taskId) ==
    IF CircuitBlocks(cs, t) THEN "CIRCUIT_OPEN"
    ELSE IF ConcurrentLimitHit(u) THEN "CONCURRENT_LIMIT"
    ELSE IF DailyLimitHit(u, est) THEN "DAILY_TOKEN_LIMIT"
    ELSE IF TaskLimitHit(u, est, taskId) THEN "TASK_TOKEN_LIMIT"
    ELSE "ALLOWED"

CheckStatus(u, cs, t, est, taskId) ==
    IF CircuitBlocks(cs, t) THEN "CIRCUIT_OPEN"
    ELSE IF DailyLimitHit(u, est) THEN "DAILY_TOKEN_LIMIT"
    ELSE IF ConcurrentLimitHit(u) THEN "CONCURRENT_LIMIT"
    ELSE IF TaskLimitHit(u, est, taskId) THEN "TASK_TOKEN_LIMIT"
    ELSE "ALLOWED"

Reserve_NoDaily(u, t, est, taskId) ==
    IF taskId = NoTask
    THEN u
    ELSE IF taskId \notin DOMAIN u.tasks
    THEN [u EXCEPT !.concurrentTasks = u.concurrentTasks + 1,
                   !.tasks = [k \in DOMAIN u.tasks \cup {taskId} |->
                                IF k = taskId
                                THEN [tokens |-> est, retries |-> 0,
                                      status |-> "running", createdAt |-> t]
                                ELSE u.tasks[k]]]
    ELSE [u EXCEPT !.tasks[taskId].tokens = u.tasks[taskId].tokens + est]

(* check(), the reservation made by an allowed call.                       *)
Reserve(u, t, est, taskId) ==
    LET daily == IF est > 0 THEN u.dailyTokens + est ELSE u.dailyTokens
    IN  IF taskId = NoTask
        THEN [u EXCEPT !.dailyTokens = daily]
        ELSE IF taskId \notin DOMAIN u.tasks
        THEN [u EXCEPT !.dailyTokens = daily,
                       !.concurrentTasks = u.concurrentTasks + 1,
                       !.tasks = [k \in DOMAIN u.tasks \cup {taskId} |->
                                    IF k = taskId
                                    THEN [tokens |-> est, retries |-> 0,
                                          status |-> "running", createdAt |-> t]
                                    ELSE u.tasks[k]]]
        ELSE [u EXCEPT !.dailyTokens = daily,
                       !.tasks[taskId].tokens = u.tasks[taskId].tokens + est]

(* check(service, action, estimatedTokens, taskId) at time t: the breaker  *)
(* after the call and the result returned.  The reason is modelled by the  *)
(* status of the event the call records.                                   *)
check_ReservesBeforeTaskLimit(u, cs, evs, t, est, taskId) ==
    LET status == CheckStatus(u, cs, t, est, taskId)
        cs1 == IF status = "CIRCUIT_OPEN" THEN cs ELSE HalfOpen(cs, t)
        u1 == IF status \in {"ALLOWED", "TASK_TOKEN_LIMIT"}
              THEN Reserve(u, t, est, taskId) ELSE u
        rec == recordEvent(cs1, evs, status, t)
    IN  [usage |-> u1,
         circuitState |-> rec.circuitState,
         events |-> rec.events,
         allowed |-> (status = "ALLOWED"),
         reason |-> IF status = "ALLOWED" THEN "" ELSE status]

check(u, cs, evs, t, est, taskId) ==
    LET status == CheckStatus(u, cs, t, est, taskId)
        cs1 == IF status = "CIRCUIT_OPEN" THEN cs ELSE HalfOpen(cs, t)
        u1 == IF status = "ALLOWED" THEN Reserve(u, t, est, taskId) ELSE u
        rec == recordEvent(cs1, evs, status, t)
    IN  [usage |-> u1,
         circuitState |-> rec.circuitState,
         events |-> rec.events,
         allowed |-> (status = "ALLOWED"),
         reason |-> IF status = "ALLOWED" THEN "" ELSE status]

release_NoClamp(u, taskId, actualTokens) ==
    IF taskId # NoTask /\ taskId \in DOMAIN u.tasks
    THEN [u EXCEPT !.dailyTokens = u.dailyTokens + (actualTokens - u.tasks[taskId].tokens),
                   !.tasks = [k \in DOMAIN u.tasks \ {taskId} |-> u.tasks[k]],
                   !.concurrentTasks = Max(0, u.concurrentTasks - 1)]
    ELSE u

(* release(taskId, actualTokens)                                           *)
release(u, taskId, actualTokens) ==
    IF taskId # NoTask /\ taskId \in DOMAIN u.tasks
    THEN [u EXCEPT !.dailyTokens =
                        Max(0, u.dailyTokens + (actualTokens - u.tasks[taskId].tokens)),
                   !.tasks = [k \in DOMAIN u.tasks \ {taskId} |-> u.tasks[k]],
                   !.concurrentTasks = Max(0, u.concurrentTasks - 1)]
    ELSE u

getRetryCount(u, taskId) ==
    IF taskId # NoTask /\ taskId \in DOMAIN u.tasks THEN u.tasks[taskId].retries ELSE 0

(* incrementRetry(taskId): the breaker after the call and the value        *)
(* returned.                                                               *)
incrementRetry(u, cs, evs, t, taskId) ==
    IF taskId # NoTask /\ taskId \in DOMAIN u.tasks
    THEN LET u1 == [u EXCEPT !.tasks[taskId].retries = u.tasks[taskId].retries + 1]
         IN  IF u1.tasks[taskId].retries >= config.MAX_RETRIES
             THEN LET rec == recordEvent(cs, evs, "MAX_RETRIES_EXCEEDED", t)
                  IN  [usage |-> u1, circuitState |-> rec.circuitState,
                       events |-> rec.events, result |-> FALSE]
             ELSE [usage |-> u1, circuitState |-> cs, events |-> evs, result |-> TRUE]
    ELSE [usage |-> u, circuitState |-> cs, events |-> evs, result |-> TRUE]

(* The setInterval callback of startCleanupTimer.                          *)
cleanup_DecrementOnce(u, t) ==
    LET expired == {k \in DOMAIN u.tasks : t - u.tasks[k].createdAt > TASK_EXPIRY_MS}
        reset == t >= u.dailyTokenReset
    IN  [u EXCEPT !.dailyTokens = IF reset THEN 0 ELSE u.dailyTokens,
                  !.dailyTokenReset = IF reset THEN t + config.TOKEN_WINDOW_MS ELSE u.dailyTokenReset,
                  !.tasks = [k \in DOMAIN u.tasks \ expired |-> u.tasks[k]],
                  !.concurrentTasks = Max(0, u.concurrentTasks - (IF expired = {} THEN 0 ELSE 1))]

cleanup(u, t) ==
    LET expired == {k \in DOMAIN u.tasks : t - u.tasks[k].createdAt > TASK_EXPIRY_MS}
        reset == t >= u.dailyTokenReset
    IN  [u EXCEPT !.dailyTokens = IF reset THEN 0 ELSE u.dailyTokens,
                  !.dailyTokenReset = IF reset THEN t + config.TOKEN_WINDOW_MS ELSE u.dailyTokenReset,
                  !.tasks = [k \in DOMAIN u.tasks \ expired |-> u.tasks[k]],
                  !.concurrentTasks = Max(0, u.concurrentTasks - Cardinality(expired))]

----------------------------------------------------------------------------
moreVars == <<duo, call, req, tester, work, disk, store, logs, stages, rw, cb, smart, repo>>
clientVars == <<admitT, admitOutcome, pairState, pairTask, sumActual, agent, stream, moreVars>>
vars == <<now, advances, config, usage, circuitState, events, ret, clientVars>>

(* ret: the call that returned last and what it returned (allowed and      *)
(* reason of check, the boolean of incrementRetry).                        *)
NoRet == [op |-> "none", ok |-> FALSE, reason |-> ""]

(* constructor(config) at time 0                                           *)
BreakerStart(cfg) ==
    /\ now = 0
    /\ advances = 0
    /\ config = cfg
    /\ usage = [dailyTokens |-> 0,
                dailyTokenReset |-> 0 + config.TOKEN_WINDOW_MS,
                concurrentTasks |-> 0,
                tasks |-> <<>>]
    /\ circuitState = [isOpen |-> FALSE, lastOpenTime |-> Null,
                       halfOpenTestCount |-> 0, nextAllowedTime |-> Null]
    /\ events = <<>>
    /\ ret = NoRet

BreakerInit == BreakerStart(BreakerConfig)

(* The services of Agent.process in the order it calls them, and the task  *)
(* row (task_logs) each of them keeps; "none": no row.                     *)
Services == <<"analyze", "generate", "applyChanges", "runTests", "publish">>
ServiceSet == {Services[i] : i \in 1..Len(Services)}
NoRows == [s \in ServiceSet |-> "none"]

(* No run of Agent.process has been started.                               *)
NoAgent == [pc |-> "none", caller |-> "", apiKey |-> FALSE, variant |-> "", run |-> 0,
            feasibility |-> "", testsPassed |-> FALSE, gate |-> "", canRetry |-> FALSE,
            failures |-> 0, stage |-> "", status |-> "pending", actual |-> 0,
            started |-> <<>>, succeeded |-> {}, taskLog |-> NoRows, denied |-> ""]

(* No request of POST /api/agent/process/stream has arrived.  log is what   *)
(* was written to the response: the names of the events, a stage event     *)
(* with its stage and a test_result with its verdict; lateWrite whether a  *)
(* write was attempted after the response had been ended.                  *)
NoStream == [pc |-> "idle", hasAgent |-> FALSE, registered |-> FALSE, ended |-> FALSE,
             disconnected |-> FALSE, timer |-> FALSE, resultSent |-> FALSE,
             chunks |-> 0, log |-> <<>>, lateWrite |-> FALSE]

(* No pair of concurrent runs.                                              *)
NoRun == [pc |-> "none", admitted |-> FALSE, error |-> "", event |-> ""]
NoDuo == [i \in 1..2 |-> NoRun]

(* No invocation of callLLM.  Of the invocation in progress: sent counts    *)
(* the requests to the model, rows are the token-usage rows and            *)
(* breakerEvents the breaker events it wrote to the store, releases its    *)
(* calls of release; total is the total_tokens of the response.            *)
NoCall == [pc |-> "idle", n |-> 0, apiKey |-> FALSE, est |-> 0, taskId |-> NoTask,
           checked |-> "", sent |-> 0, total |-> 0,
           rows |-> <<>>, breakerEvents |-> <<>>, releases |-> <<>>]

(* No request has arrived.  Of the request being answered: content is the  *)
(* body's content (a string as a sequence of characters, or undefined),    *)
(* status the HTTP status of the answer, created whether a feedback row    *)
(* was written, started whether a run of the agent was started.  feedback  *)
(* counts the rows of database.stores.feedback, feedbackStore those of the  *)
(* in-memory list of app.js.                                               *)
NoReq == [pc |-> "idle", n |-> 0, route |-> "", content |-> <<>>, status |-> 0,
          created |-> FALSE, started |-> FALSE, feedback |-> 0, feedbackStore |-> 0]

(* No Tester is running.  cases is the number of test cases                *)
(* generateTestCases returned, browser what runBrowserTests finds, report  *)
(* what it returns, score the score of the evaluation (0: there is no      *)
(* evaluation or it carries no score), gate the quality gate, passed the   *)
(* verdict of runTests, outcome how Agent.process went on.                 *)
NoReport == [passed |-> FALSE, testsRun |-> 0, testsPassed |-> 0, testsFailed |-> 0,
             details |-> <<>>]
NoGate == [testPassRate |-> FALSE, coverage |-> FALSE, llmQualityScore |-> "null"]
NoTester == [pc |-> "none", cases |-> 0, browser |-> "", threw |-> FALSE,
             report |-> NoReport, evaluated |-> FALSE, score |-> 0, gate |-> NoGate,
             passed |-> FALSE, canRetry |-> FALSE, row |-> "testing", outcome |-> ""]

(* No run of applyChanges.  pc is the place of each run, thread the run     *)
(* whose code the process is executing (0: none, the event loop is free),  *)
(* ops the git and file operations done on the working directory, in       *)
(* order, each with the run that did it.                                   *)
NoWork == [pc |-> [i \in 1..2 |-> "none"], thread |-> 0, ops |-> <<>>]

(* The files of the snapshot list and the snapshot directory.  files is    *)
(* the content of each listed file ("absent": there is no such file),      *)
(* snapshots the snapshot directories by id, each with the copies it holds *)
(* and the files its metadata lists; taken is what the files were when     *)
(* each snapshot was created, restored the id restoreSnapshot was called   *)
(* with last (0: it was not called) once it has returned.                  *)
SnapshotFiles == {"index.html", "styles.css", "app.js"}
NoDisk == [files |-> [f \in SnapshotFiles |-> "absent"], snapshots |-> <<>>, taken |-> <<>>,
           nextId |-> 1, mutations |-> 0, restored |-> 0, returned |-> FALSE]

(* The four capped lists of the Store.  A record is the number of its      *)
(* creation in its list (1 is the first record created); created counts    *)
(* the records created in each list, ops the operations of this run.       *)
StoreLists == {"feedback", "taskLogs", "tokenUsage", "circuitBreakerEvents"}
NoStore == [lists |-> [l \in StoreLists |-> <<>>], created |-> [l \in StoreLists |-> 0],
            ops |-> [l \in StoreLists |-> 0]]

(* The task logs with the fields the queries filter on, newest first, the  *)
(* query of the last GET /api/agent/task-logs ("": the parameter was not   *)
(* given) and the data it answered.                                        *)
NoLogs == [list |-> <<>>, answered |-> FALSE,
           query |-> [limit |-> 0, taskId |-> "", feedbackId |-> "", status |-> ""],
           data |-> [list |-> <<>>, total |-> 0]]

(* One run of TestService.runTests: its position and the stage rows        *)
(* addTaskStage appended to its task log, oldest first.                    *)
NoStages == [pc |-> "none", rows |-> <<>>, result |-> ""]

(* One call of the wrapper returned by withRetry: the options, the loop    *)
(* variables (attempt, delay, lastError), the outcome of each call of fn   *)
(* made so far and how the wrapper ended.                                  *)
NoError == [code |-> "", status |-> 0, n |-> 0]
NoRetry == [pc |-> "none", maxRetries |-> 0, retryCondition |-> "null", attempt |-> 0,
            delay |-> 0, lastError |-> NoError, calls |-> <<>>, thrown |-> NoError]

(* A CircuitBreaker of server/retry.js: its fields, and for each caller    *)
(* where its execute is ("idle", "fn": awaiting fn), the state and the     *)
(* half-open period in which it was admitted and how its last execute      *)
(* ended.  executes counts the calls of execute, period the entries into   *)
(* HALF_OPEN, streak the failures since the last success, wins the         *)
(* successes of calls admitted in the current half-open period.            *)
CbCallers == 1..3
NoCb == [state |-> "CLOSED", failures |-> 0, successes |-> 0, nextAttempt |-> 0,
         stats |-> [totalCalls |-> 0, successfulCalls |-> 0, failedCalls |-> 0,
                    rejectedCalls |-> 0],
         calls |-> [c \in CbCallers |-> [pc |-> "idle", admittedIn |-> "", period |-> 0,
                                          last |-> ""]],
         period |-> 0, streak |-> 0, wins |-> 0]

(* One call of SmartTestSystem.runSmartTest(featureName, testFunctions,    *)
(* options): the options, the loop variable, the results of the attempt    *)
(* that ran last (tests: how many test functions, passed: how many of them *)
(* returned status passed), the decisions taken, the calls of              *)
(* restoreSnapshot, whether the feature is in abortedFeatures and the      *)
(* success field of the value returned.                                    *)
NoSmart == [pc |-> "none", maxAttempts |-> 0, tests |-> 0, lastStable |-> FALSE,
            attempt |-> 0, runs |-> 0, passed |-> 0, decisions |-> <<>>, restores |-> 0,
            aborted |-> FALSE, success |-> FALSE]

(* The repository in the working directory of CodeModifier.  A tree is the *)
(* set of feedbacks whose change it holds (the baseline holds none);       *)
(* commits maps each branch that exists to the tree of its tip, head is    *)
(* the branch checked out, worktree the tree in the working directory,     *)
(* runs where the applyChanges of each feedback is.                        *)
RepoFeedbacks == 1..3
NoRepo == [commits |-> [b \in {"main"} |-> {}], head |-> "main", worktree |-> {},
           committed |-> {}, runs |-> [i \in RepoFeedbacks |-> "none"]]

NoMore ==
    /\ duo = NoDuo
    /\ call = NoCall
    /\ req = NoReq
    /\ tester = NoTester
    /\ work = NoWork
    /\ disk = NoDisk
    /\ store = NoStore
    /\ logs = NoLogs
    /\ stages = NoStages
    /\ rw = NoRetry
    /\ cb = NoCb
    /\ smart = NoSmart
    /\ repo = NoRepo

NoClients ==
    /\ NoMore
    /\ admitT = 0
    /\ admitOutcome = [c \in Callers |-> "none"]
    /\ pairState = [p \in Pairs |-> "none"]
    /\ pairTask = [p \in Pairs |-> NoTask]
    /\ sumActual = 0
    /\ agent = NoAgent
    /\ stream = NoStream

Init == BreakerInit /\ NoClients

(* POST /api/circuit/check and every other caller of check()               *)
Check(est, taskId) ==
    /\ LET r == check(usage, circuitState, events, now, est, taskId)
       IN  /\ usage' = r.usage
           /\ circuitState' = r.circuitState
           /\ events' = r.events
           /\ ret' = [op |-> "check", ok |-> r.allowed, reason |-> r.reason]
    /\ UNCHANGED <<now, advances, config, clientVars>>

(* POST /api/circuit/release and every other caller of release()           *)
Release(taskId, actualTokens) ==
    /\ usage' = release(usage, taskId, actualTokens)
    /\ ret' = [op |-> "release", ok |-> TRUE, reason |-> ""]
    /\ UNCHANGED <<now, advances, config, circuitState, events, clientVars>>

IncrementRetry(taskId) ==
    /\ LET r == incrementRetry(usage, circuitState, events, now, taskId)
       IN  /\ usage' = r.usage
           /\ circuitState' = r.circuitState
           /\ events' = r.events
           /\ ret' = [op |-> "incrementRetry", ok |-> r.result, reason |-> ""]
    /\ UNCHANGED <<now, advances, config, clientVars>>

CleanupTick ==
    /\ usage' = cleanup(usage, now)
    /\ UNCHANGED <<now, advances, config, circuitState, events, ret, clientVars>>

AdvanceClock(d) ==
    /\ now' = now + d
    /\ advances' = advances + 1
    /\ UNCHANGED <<config, usage, circuitState, events, ret, clientVars>>

(* Bounding guard of an exploration: it stops recording at maxEvents       *)
(* events, of which at most maxAllowed are ALLOWED.                        *)
AllowedCount == Cardinality({i \in 1..Len(events) : events[i].allowed})

MayCheck(est, taskId, maxEvents, maxAllowed) ==
    /\ Len(events) < maxEvents
    /\ \/ AllowedCount < maxAllowed
       \/ CheckStatus(usage, circuitState, now, est, taskId) # "ALLOWED"

(* Any callers of the breaker, in any order: the accounting of tokens and  *)
(* tasks.                                                                  *)
Next ==
    \/ \E e \in EstimateChoices, k \in TaskIds \cup {NoTask} :
            MayCheck(e, k, MaxEvents, MaxAllowed) /\ Check(e, k)
    \/ \E k \in TaskIds, a \in ActualChoices : Release(k, a)
    \/ \E k \in RetryTaskIds : Len(events) < MaxEvents /\ IncrementRetry(k)
    \/ CleanupTick
    \/ \E d \in ClockSteps : advances < MaxAdvances /\ AdvanceClock(d)

Spec == Init /\ [][Next]_vars

(* The same callers, followed further so that the circuit trips and        *)
(* recovers.                                                               *)
NextCircuit ==
    \/ \E e \in CircuitEstimates, k \in CircuitTaskIds \cup {NoTask} :
            MayCheck(e, k, MaxCircuitEvents, MaxCircuitAllowed) /\ Check(e, k)
    \/ \E k \in CircuitTaskIds : Release(k, CircuitActual)
    \/ \E d \in CircuitClockSteps : advances < MaxCircuitAdvances /\ AdvanceClock(d)

SpecCircuit == Init /\ [][NextCircuit]_vars

----------------------------------------------------------------------------
(* NumCallers concurrent callers, each calling check() once for the same   *)
(* number of tokens.  check() contains no await: each call runs to its end *)
(* before another caller's code runs, so a schedule is an order of calls.  *)
InitAdmission ==
    /\ BreakerInit
    /\ NoMore
    /\ admitT \in AdmissionEstimates
    /\ admitOutcome = [c \in Callers |-> "pending"]
    /\ pairState = [p \in Pairs |-> "none"]
    /\ pairTask = [p \in Pairs |-> NoTask]
    /\ sumActual = 0
    /\ agent = NoAgent
    /\ stream = NoStream

CallerCheck(c, taskId) ==
    /\ admitOutcome[c] = "pending"
    /\ LET r == check(usage, circuitState, events, now, admitT, taskId)
       IN  /\ usage' = r.usage
           /\ circuitState' = r.circuitState
           /\ events' = r.events
           /\ ret' = [op |-> "check", ok |-> r.allowed, reason |-> r.reason]
           /\ admitOutcome' = [admitOutcome EXCEPT ![c] = IF r.allowed THEN "allowed" ELSE "denied"]
    /\ UNCHANGED <<now, advances, config, admitT, pairState, pairTask, sumActual, agent, stream, moreVars>>

NextAdmission ==
    \/ \E c \in Callers, k \in TaskIds \cup {NoTask} : CallerCheck(c, k)
    \/ advances < MaxAdvances /\ AdvanceClock(30000)

SpecAdmission == InitAdmission /\ [][NextAdmission]_vars

----------------------------------------------------------------------------
(* Callers that pair a check() with a release(), as callLLM does: the task *)
(* id of a pair is the caller's own (generateId) or null.  A caller whose  *)
(* check() is denied reserves nothing and does not release.                *)
InitPairs ==
    /\ BreakerInit
    /\ NoMore
    /\ admitT = 0
    /\ admitOutcome = [c \in Callers |-> "none"]
    /\ pairState = [p \in Pairs |-> "idle"]
    /\ pairTask = [p \in Pairs |-> NoTask]
    /\ sumActual = 0
    /\ agent = NoAgent
    /\ stream = NoStream

PairCheck(p, est, taskId) ==
    /\ pairState[p] = "idle"
    /\ LET r == check(usage, circuitState, events, now, est, taskId)
       IN  /\ usage' = r.usage
           /\ circuitState' = r.circuitState
           /\ events' = r.events
           /\ ret' = [op |-> "check", ok |-> r.allowed, reason |-> r.reason]
           /\ pairState' = [pairState EXCEPT ![p] = IF r.allowed THEN "reserved" ELSE "denied"]
    /\ pairTask' = [pairTask EXCEPT ![p] = taskId]
    /\ UNCHANGED <<now, advances, config, admitT, admitOutcome, sumActual, agent, stream, moreVars>>

PairRelease(p, actualTokens) ==
    /\ pairState[p] = "reserved"
    /\ usage' = release(usage, pairTask[p], actualTokens)
    /\ ret' = [op |-> "release", ok |-> TRUE, reason |-> ""]
    /\ pairState' = [pairState EXCEPT ![p] = "done"]
    /\ sumActual' = sumActual + actualTokens
    /\ UNCHANGED <<now, advances, config, circuitState, events, admitT, admitOutcome, pairTask, agent, stream, moreVars>>

NextPairs ==
    \/ \E p \in Pairs, e \in EstimateChoices :
            \E k \in {NoTask, PairId(p)} : PairCheck(p, e, k)
    \/ \E p \in Pairs, a \in ActualChoices : PairRelease(p, a)
    \/ CleanupTick
    \/ \E d \in ClockSteps : advances < MaxAdvances /\ AdvanceClock(d)

SpecPairs == InitPairs /\ [][NextPairs]_vars

----------------------------------------------------------------------------
(* One run of Agent.process(feedback) on a breaker of its own.  agent.pc   *)
(* is the place of the run, agent.caller the service whose callLLM is in   *)
(* progress, agent.stage and agent.status what process returns and the     *)
(* status it wrote to the feedback, agent.actual the total_tokens the      *)
(* model reported over the run's calls.  agent.started lists the services  *)
(* entered, agent.succeeded those that returned success, agent.taskLog the *)
(* status of each service's task row.  agent.gate, agent.canRetry and      *)
(* agent.failures record the quality gate, agent.denied the place of the   *)
(* check the breaker denied.  The task ids are the                         *)
(* generateId prefixes of the services, made fresh for each run.  The      *)
(* repository holds two versions of the services: agent.variant is the one *)
(* that is loaded.                                                         *)
Variants == {"unnamed/part_001", "server/agent-services.js"}
AgentDailyChoices == {1800, 4000, 1000000}
AgentTaskChoices == {1800, 50000}
AgentConcurrentChoices == {1, 2, 3, 10}
AgentConfigs ==
    {[BreakerConfig EXCEPT !.MAX_DAILY_TOKENS = d, !.MAX_TASK_TOKENS = t,
                           !.MAX_CONCURRENT_TASKS = c] :
        d \in AgentDailyChoices, t \in AgentTaskChoices, c \in AgentConcurrentChoices}

(* response.data.usage.total_tokens; 0 when the response carries no usage  *)
LLMTotals == {0, 300}
Feasibilities == {"high", "medium", "low"}
FeedbackId == "fb"

InitAgent ==
    /\ \E cfg \in AgentConfigs : BreakerStart(cfg)
    /\ NoMore
    /\ admitT = 0
    /\ admitOutcome = [c \in Callers |-> "none"]
    /\ pairState = [p \in Pairs |-> "none"]
    /\ pairTask = [p \in Pairs |-> NoTask]
    /\ sumActual = 0
    /\ stream = NoStream
    /\ agent \in {[NoAgent EXCEPT !.pc = "analyze", !.run = 1, !.apiKey = k, !.variant = v] :
                        k \in BOOLEAN, v \in Variants}

otherClients == <<admitT, admitOutcome, pairState, pairTask, sumActual, stream, moreVars>>

At(pc) == [agent EXCEPT !.pc = pc]
Call(s) == [agent EXCEPT !.pc = "callLLM", !.caller = s]
Return(stage, status) == [agent EXCEPT !.pc = "done", !.stage = stage, !.status = status]

(* createTaskLog at the head of a service: the status the row starts with  *)
firstStatus(s) ==
    CASE s = "analyze" -> "analyzing"
      [] s = "generate" -> "generating"
      [] s = "applyChanges" -> "modifying"
      [] s = "runTests" -> "testing"
      [] s = "publish" -> "publishing"

Entered(a, s) == [a EXCEPT !.started = Append(a.started, s), !.taskLog[s] = firstStatus(s)]
(* updateTaskLog(taskId, { status })                                       *)
Row(a, s, st) == [a EXCEPT !.taskLog[s] = st]
(* the service returned success: true                                      *)
Succeeded(a, s) == [a EXCEPT !.succeeded = a.succeeded \cup {s}]

(* generateId(prefix): a fresh id for every run                            *)
TaskId(prefix) == IF agent.run <= 1 THEN prefix ELSE prefix \o "_" \o ToString(agent.run)

(* a service's await circuitBreaker.check(...) and the branch on allowed   *)
AgentCheck(est, taskId, onAllowed, onDenied) ==
    /\ LET r == check(usage, circuitState, events, now, est, taskId)
       IN  /\ usage' = r.usage
           /\ circuitState' = r.circuitState
           /\ events' = r.events
           /\ ret' = [op |-> "check", ok |-> r.allowed, reason |-> r.reason]
           /\ agent' = IF r.allowed THEN onAllowed ELSE [onDenied EXCEPT !.denied = agent.pc]
    /\ UNCHANGED <<now, advances, config, otherClients>>

(* the options each service passes to callLLM                              *)
maxTokens(s) ==
    CASE s = "analyze" -> 500
      [] s = "generate" -> 1000
      [] s = "generateTestCases" -> 1000
      [] s = "evaluateTestResults" -> 300
      [] s = "publish" -> 500

callTaskId(s) ==
    CASE s = "analyze" -> TaskId("analyze")
      [] s = "generate" -> TaskId("solution")
      [] s = "generateTestCases" -> NoTask
      [] s = "evaluateTestResults" -> NoTask
      [] s = "publish" -> TaskId("publish")

Thrown_GoesOn(s) ==
    CASE s = "analyze" -> Row(Return("analysis", agent.status), "analyze", "failed")
      [] s = "generate" -> Row(At("applyChanges"), "generate", "failed")
      [] s = "generateTestCases" -> Row(Return("test", "needs_human"), "runTests", "failed")
      [] s = "evaluateTestResults" -> Row(Return("test", "needs_human"), "runTests", "failed")
      [] s = "publish" -> Row(Return("publish", "failed"), "publish", "failed")

(* where the run goes when callLLM throws in service s: the service's      *)
(* catch returns success false, and process returns (runTests: without     *)
(* canRetry, so needs_human; publish: status failed)                       *)
Thrown(s) ==
    CASE s = "analyze" -> Row(Return("analysis", agent.status), "analyze", "failed")
      [] s = "generate" -> Row(Return("solution", agent.status), "generate", "failed")
      [] s = "generateTestCases" -> Row(Return("test", "needs_human"), "runTests", "failed")
      [] s = "evaluateTestResults" -> Row(Return("test", "needs_human"), "runTests", "failed")
      [] s = "publish" -> Row(Return("publish", "failed"), "publish", "failed")

(* where the run goes when callLLM returns in service s                    *)
Resolved(s) ==
    CASE s = "analyze" -> At("analyzed")
      [] s = "generate" -> Succeeded(Row(At("applyChanges"), "generate", "generated"), "generate")
      [] s = "generateTestCases" -> At("runBrowserTests")
      [] s = "evaluateTestResults" -> At("qualityGate")
      [] s = "publish" -> Succeeded(Row(Return("completed", "completed"), "publish", "completed"),
                                    "publish")

(* callLLM up to the request: no API key throws before the check, a denied *)
(* check throws after it                                                   *)
callLLM ==
    /\ agent.pc = "callLLM"
    /\ IF ~agent.apiKey
       THEN /\ agent' = Thrown(agent.caller)
            /\ UNCHANGED <<now, advances, config, usage, circuitState, events, ret, otherClients>>
       ELSE AgentCheck(maxTokens(agent.caller), callTaskId(agent.caller),
                       At("axios"), Thrown(agent.caller))

(* callLLM, the response: release(taskId, usage?.total_tokens || estimatedTokens) *)
LLMResponse(total) ==
    /\ agent.pc = "axios"
    /\ usage' = release(usage, callTaskId(agent.caller),
                        IF total # 0 THEN total ELSE maxTokens(agent.caller))
    /\ ret' = [op |-> "release", ok |-> TRUE, reason |-> ""]
    /\ agent' = [Resolved(agent.caller) EXCEPT !.actual = agent.actual + total]
    /\ UNCHANGED <<now, advances, config, circuitState, events, otherClients>>

(* callLLM, the catch: release(taskId, 0) and rethrow                      *)
LLMError ==
    /\ agent.pc = "axios"
    /\ usage' = release(usage, callTaskId(agent.caller), 0)
    /\ ret' = [op |-> "release", ok |-> TRUE, reason |-> ""]
    /\ agent' = Thrown(agent.caller)
    /\ UNCHANGED <<now, advances, config, circuitState, events, otherClients>>

(* FeedbackAnalyzer.analyze up to its callLLM                              *)
analyze ==
    /\ agent.pc = "analyze"
    /\ AgentCheck(1500, TaskId("analyze"),
                  Entered(Call("analyze"), "analyze"),
                  Row(Entered(Return("analysis", agent.status), "analyze"), "analyze", "failed"))

(* FeedbackAnalyzer.analyze, canAutoImprove: feasibility !== 'low' in one  *)
(* version of the services, feasibility === 'high' in the other            *)
canAutoImprove(f) ==
    IF agent.variant = "server/agent-services.js" THEN f = "high" ELSE f # "low"

(* FeedbackAnalyzer.analyze after its callLLM, and process's branch on     *)
(* canAutoImprove                                                          *)
analyzed(f) ==
    /\ agent.pc = "analyzed"
    /\ agent' = IF canAutoImprove(f)
                THEN Succeeded(Row([At("generate") EXCEPT !.feasibility = f],
                                   "analyze", "analyzed"), "analyze")
                ELSE Succeeded(Row([Return("analysis", "needs_human") EXCEPT !.feasibility = f],
                                   "analyze", "failed"), "analyze")
    /\ UNCHANGED <<now, advances, config, usage, circuitState, events, ret, otherClients>>

(* SolutionGenerator.generate up to its callLLM                            *)
generate ==
    /\ agent.pc = "generate"
    /\ AgentCheck(2000, TaskId("solution"),
                  Entered(Call("generate"), "generate"),
                  Row(Entered(Return("solution", agent.status), "generate"), "generate", "failed"))

(* CodeModifier.applyChanges up to the git operations                      *)
applyChanges ==
    /\ agent.pc = "applyChanges"
    /\ AgentCheck(0, TaskId("modify"),
                  Entered(At("git"), "applyChanges"),
                  Entered(Return("modification", agent.status), "applyChanges"))

(* CodeModifier.applyChanges, the try block: it returns or its catch does  *)
gitOperations(ok) ==
    /\ agent.pc = "git"
    /\ agent' = IF ok
                THEN Succeeded(Row(At("runTests"), "applyChanges", "modified"), "applyChanges")
                ELSE Row(Return("modification", agent.status), "applyChanges", "failed")
    /\ UNCHANGED <<now, advances, config, usage, circuitState, events, ret, otherClients>>

(* TestService.runTests up to generateTestCases; denied, it returns        *)
(* neither passed nor canRetry.  The version of server/agent-services.js   *)
(* runs no test: its result is the constant 5 of 5 passed, coverage 85.    *)
runTests ==
    /\ agent.pc = "runTests"
    /\ AgentCheck(0, TaskId("test"),
                  Entered(IF agent.variant = "server/agent-services.js"
                          THEN [At("qualityGate") EXCEPT !.testsPassed = TRUE]
                          ELSE At("generateTestCases"), "runTests"),
                  Entered(Return("test", "needs_human"), "runTests"))

(* TestService.generateTestCases up to its callLLM; denied, it throws into *)
(* the catch of runTests                                                   *)
generateTestCases ==
    /\ agent.pc = "generateTestCases"
    /\ AgentCheck(1500, NoTask, Call("generateTestCases"), Thrown("generateTestCases"))

(* TestService.runBrowserTests: every test passed, or not                  *)
runBrowserTests(passed) ==
    /\ agent.pc = "runBrowserTests"
    /\ agent' = [At("evaluateTestResults") EXCEPT !.testsPassed = passed]
    /\ UNCHANGED <<now, advances, config, usage, circuitState, events, ret, otherClients>>

(* TestService.evaluateTestResults up to its callLLM; denied, it returns   *)
(* null and runTests goes on                                               *)
evaluateTestResults ==
    /\ agent.pc = "evaluateTestResults"
    /\ AgentCheck(500, NoTask, Call("evaluateTestResults"), At("qualityGate"))

(* TestService.runTests from the quality gate on, and process's branch on  *)
(* passed and canRetry: incrementRetry is called with the feedback id      *)
qualityGate ==
    /\ agent.pc = "qualityGate"
    /\ IF agent.testsPassed
       THEN /\ agent' = Succeeded(Row([At("publish") EXCEPT !.gate = "passed"],
                                      "runTests", "tested"), "runTests")
            /\ UNCHANGED <<usage, circuitState, events, ret>>
       ELSE LET r == incrementRetry(usage, circuitState, events, now, FeedbackId)
            IN  /\ usage' = r.usage
                /\ circuitState' = r.circuitState
                /\ events' = r.events
                /\ ret' = [op |-> "incrementRetry", ok |-> r.result, reason |-> ""]
                /\ agent' = Row([Return("test", IF r.result THEN agent.status ELSE "needs_human")
                                    EXCEPT !.gate = "failed", !.canRetry = r.result,
                                           !.failures = agent.failures + 1],
                                "runTests", "failed")
    /\ UNCHANGED <<now, advances, config, otherClients>>

(* PublishService.publish up to its callLLM; process writes the status     *)
publish ==
    /\ agent.pc = "publish"
    /\ AgentCheck(1000, TaskId("publish"),
                  Entered(Call("publish"), "publish"),
                  Entered(Return("publish", "failed"), "publish"))

NextAgent ==
    \/ analyze
    \/ callLLM
    \/ \E total \in LLMTotals : LLMResponse(total)
    \/ LLMError
    \/ \E f \in Feasibilities : analyzed(f)
    \/ generate
    \/ applyChanges
    \/ \E ok \in BOOLEAN : gitOperations(ok)
    \/ runTests
    \/ generateTestCases
    \/ \E passed \in BOOLEAN : runBrowserTests(passed)
    \/ evaluateTestResults
    \/ qualityGate
    \/ publish

SpecAgent == InitAgent /\ [][NextAgent]_vars

----------------------------------------------------------------------------
(* The run shares the breaker: while it is in progress other clients       *)
(* (another feedback's services, POST /api/circuit/check) have a check     *)
(* allowed that registers a task of their own.                             *)
OtherTasks == {"other1", "other2"}

otherClient(k) ==
    /\ agent.pc # "done"
    /\ k \notin DOMAIN usage.tasks
    /\ CheckStatus(usage, circuitState, now, 0, k) = "ALLOWED"
    /\ Check(0, k)

NextBusy ==
    \/ NextAgent
    \/ \E k \in OtherTasks : otherClient(k)

SpecBusy == InitAgent /\ [][NextBusy]_vars

----------------------------------------------------------------------------
(* POST /api/agent/process/stream: one request, its server-sent events and *)
(* the run of Agent.process it starts.  The handler does not await the     *)
(* run: it arms a timer of one second that writes done and ends the        *)
(* response, while the run takes as long as its model calls take.          *)
MaxChunks == 2

breakerVars == <<now, advances, config, usage, circuitState, events, ret>>
quietClients == <<admitT, admitOutcome, pairState, pairTask, sumActual, moreVars>>

sendToClient_Unguarded(st, event) == [st EXCEPT !.log = Append(st.log, event)]

(* sendToClient(clientId, event, data)                                     *)
sendToClient(st, event) ==
    IF st.registered /\ ~st.ended
    THEN [st EXCEPT !.log = Append(st.log, event)]
    ELSE st

RECURSIVE sendAll(_, _)
sendAll(st, evs) ==
    IF evs = <<>> THEN st ELSE sendAll(sendToClient(st, Head(evs)), Tail(evs))

(* res.write(...) called by the handler itself: on an ended response       *)
(* nothing is delivered and the write fails                                *)
resWrite(st, event) ==
    IF st.ended
    THEN [st EXCEPT !.lateWrite = TRUE]
    ELSE [st EXCEPT !.log = Append(st.log, event)]

(* removeClient(clientId): res.end() if the client is registered, delete   *)
removeClient(st) ==
    [st EXCEPT !.ended = st.ended \/ st.registered, !.registered = FALSE]

(* the events the then-callback of agent.process sends for a result        *)
resultEvents ==
    IF agent.status = "needs_human" THEN <<"stage(needs_human)", "complete">>
    ELSE IF agent.stage = "completed"
    THEN <<"intent", "suggestion", "test_result(passed)", "pr", "complete">>
    ELSE <<"error", "complete">>

InitStream ==
    /\ \E cfg \in AgentConfigs : BreakerStart(cfg)
    /\ NoMore
    /\ admitT = 0
    /\ admitOutcome = [c \in Callers |-> "none"]
    /\ pairState = [p \in Pairs |-> "none"]
    /\ pairTask = [p \in Pairs |-> NoTask]
    /\ sumActual = 0
    /\ agent \in {[NoAgent EXCEPT !.run = 1, !.apiKey = k, !.variant = v] :
                        k \in BOOLEAN, v \in Variants}
    /\ stream \in {[NoStream EXCEPT !.hasAgent = h] : h \in BOOLEAN}

(* the handler up to await database.createFeedback: headers, registration, *)
(* the connected event, the close listener                                 *)
streamRequest ==
    /\ stream.pc = "idle"
    /\ stream' = resWrite([stream EXCEPT !.pc = "createFeedback", !.registered = TRUE],
                          "connected")
    /\ UNCHANGED <<breakerVars, quietClients, agent>>

(* the handler after createFeedback.  With an agent: stage, the start of   *)
(* agent.process (not awaited), stage, the timer.  Without: stage and the  *)
(* await of analyzeIntent.                                                 *)
streamStart ==
    /\ stream.pc = "createFeedback"
    /\ IF stream.hasAgent
       THEN /\ stream' = [sendAll(stream, <<"stage(analyzing)", "stage(processing)">>) EXCEPT
                              !.pc = "returned", !.timer = TRUE]
            /\ agent' = At("analyze")
       ELSE /\ stream' = [sendToClient(stream, "stage(analyzing)") EXCEPT !.pc = "analyzeIntent"]
            /\ agent' = agent
    /\ UNCHANGED <<breakerVars, quietClients>>

(* without an agent: intent and stage, then the chunks of the suggestion   *)
fallbackIntent ==
    /\ stream.pc = "analyzeIntent"
    /\ stream' = [sendAll(stream, <<"intent", "stage(generating)">>) EXCEPT !.pc = "generateSuggestion"]
    /\ UNCHANGED <<breakerVars, quietClients, agent>>

fallbackChunk ==
    /\ stream.pc = "generateSuggestion"
    /\ stream.chunks < MaxChunks
    /\ stream' = [sendToClient(stream, "code_chunk") EXCEPT !.chunks = stream.chunks + 1]
    /\ UNCHANGED <<breakerVars, quietClients, agent>>

fallbackComplete ==
    /\ stream.pc = "generateSuggestion"
    /\ stream' = [sendAll(stream, <<"stage(generated)", "suggestion", "complete">>) EXCEPT
                      !.pc = "returned", !.timer = TRUE]
    /\ UNCHANGED <<breakerVars, quietClients, agent>>

(* the then-callback of agent.process(feedback)                            *)
processResolved ==
    /\ stream.hasAgent /\ stream.pc = "returned"
    /\ agent.pc = "done" /\ ~stream.resultSent
    /\ stream' = [sendAll(stream, resultEvents) EXCEPT !.resultSent = TRUE]
    /\ UNCHANGED <<breakerVars, quietClients, agent>>

(* the callback of setTimeout(..., 1000): res.write of done, res.end(),    *)
(* removeClient                                                            *)
doneTimer ==
    /\ stream.timer
    /\ stream' = [removeClient([resWrite(stream, "done") EXCEPT !.ended = TRUE])
                      EXCEPT !.timer = FALSE]
    /\ UNCHANGED <<breakerVars, quietClients, agent>>

disconnect_Cancels ==
    /\ stream.pc # "idle" /\ stream.registered
    /\ stream' = [removeClient(stream) EXCEPT !.disconnected = TRUE]
    /\ agent' = [agent EXCEPT !.pc = "cancelled"]
    /\ UNCHANGED <<breakerVars, quietClients>>

(* req.on('close'): the subscriber went away                               *)
disconnect ==
    /\ stream.pc # "idle" /\ stream.registered
    /\ stream' = [removeClient(stream) EXCEPT !.disconnected = TRUE]
    /\ UNCHANGED <<breakerVars, quietClients, agent>>

NextStream ==
    \/ streamRequest
    \/ streamStart
    \/ fallbackIntent
    \/ fallbackChunk
    \/ fallbackComplete
    \/ processResolved
    \/ doneTimer
    \/ disconnect
    \/ NextAgent

SpecStream == InitStream /\ [][NextStream]_vars

(* The event loop runs every continuation that is ready, and every model   *)
(* call ends in a response or an error (axios timeout).                    *)
SpecStreamLive ==
    /\ SpecStream
    /\ WF_vars(streamStart)
    /\ WF_vars(NextAgent)

----------------------------------------------------------------------------
(* The retry back-edge.  process returns canRetry: true and leaves the     *)
(* retry to its caller: the caller calls process again with the same       *)
(* feedback.  The breaker has the default configuration, the API key is    *)
(* set, and the services are those of unnamed/part_001, whose tests can    *)
(* fail.                                                                   *)
MaxRuns == 5

(* DEFAULT_CONFIG as it is in the source                                   *)
DefaultConfig ==
    [BreakerConfig EXCEPT !.MAX_DAILY_TOKENS = 1000000, !.MAX_TASK_TOKENS = 50000,
                          !.MAX_CONCURRENT_TASKS = 10]

InitRetry ==
    /\ BreakerStart(DefaultConfig)
    /\ NoMore
    /\ admitT = 0
    /\ admitOutcome = [c \in Callers |-> "none"]
    /\ pairState = [p \in Pairs |-> "none"]
    /\ pairTask = [p \in Pairs |-> NoTask]
    /\ sumActual = 0
    /\ stream = NoStream
    /\ agent = [NoAgent EXCEPT !.pc = "analyze", !.run = 1, !.apiKey = TRUE,
                               !.variant = "unnamed/part_001"]

retry ==
    /\ agent.pc = "done" /\ agent.stage = "test"
    /\ agent.gate = "failed" /\ agent.canRetry
    /\ agent.run < MaxRuns
    /\ agent' = [agent EXCEPT !.pc = "analyze", !.run = agent.run + 1, !.caller = "",
                              !.feasibility = "", !.testsPassed = FALSE, !.gate = "",
                              !.canRetry = FALSE, !.stage = "", !.started = <<>>,
                              !.succeeded = {}, !.taskLog = NoRows, !.denied = ""]
    /\ UNCHANGED <<now, advances, config, usage, circuitState, events, ret, otherClients>>

NextRetry ==
    \/ NextAgent
    \/ retry

SpecRetry == InitRetry /\ [][NextRetry]_vars

----------------------------------------------------------------------------
(* What the properties quantify over.                                      *)
AllEstimates == CircuitEstimates
AllTasks == CircuitTaskIds \cup {NoTask}

(* C1: under any interleaving of Check, Release, IncrementRetry and        *)
(* housekeeping ticks the number of in-flight tasks never exceeds          *)
(* maxConcurrentTasks.                                                     *)
C1_ConcurrencyCap == usage.concurrentTasks <= config.MAX_CONCURRENT_TASKS

(* the cap is reached and a further Check was turned away by it            *)
C1_Witness ==
    /\ usage.concurrentTasks = config.MAX_CONCURRENT_TASKS
    /\ ret = [op |-> "check", ok |-> FALSE, reason |-> "CONCURRENT_LIMIT"]

(* The four conditions of Check, read off the state in which it is called. *)
CircuitOpenNow == circuitState.isOpen /\ now < circuitState.nextAllowedTime
DailyOver(e) == usage.dailyTokens + e > config.MAX_DAILY_TOKENS
ConcurrencyFull == usage.concurrentTasks >= config.MAX_CONCURRENT_TASKS
TaskOver(e, k) ==
    k # NoTask /\ k \in DOMAIN usage.tasks
               /\ usage.tasks[k].tokens + e > config.MAX_TASK_TOKENS
FailuresWithin60s ==
    Cardinality({i \in 1..Len(events) :
        ~events[i].allowed /\ now - events[i].timestamp < 60000})

(* C6: once 5 non-allowed events have occurred within 60 s the circuit is  *)
(* open, and every Check issued before next-allowed-time is denied with    *)
(* circuit-open, whatever its token estimate or task.                      *)
C6_TripBlocks ==
    [][ /\ (Len(events') > Len(events) /\ ~events'[1].allowed /\ FailuresWithin60s' >= 5)
            => (circuitState'.isOpen /\ now < circuitState'.nextAllowedTime)
        /\ \A e \in AllEstimates, k \in AllTasks :
            (CircuitOpenNow /\ Check(e, k))
                => ret' = [op |-> "check", ok |-> FALSE, reason |-> "CIRCUIT_OPEN"]
      ]_vars

(* five denials tripped the circuit and the sixth Check met it open        *)
C6_Witness ==
    /\ CircuitOpenNow
    /\ ret = [op |-> "check", ok |-> FALSE, reason |-> "CIRCUIT_OPEN"]
    /\ FailuresWithin60s >= 6

(* The tasks admitted after the circuit last became due.                   *)
ProbeTasks ==
    {k \in DOMAIN usage.tasks :
        /\ circuitState.lastOpenTime # Null
        /\ usage.tasks[k].createdAt >= circuitState.nextAllowedTime}

C8_HalfOpenDenyReopens ==
    [][ \A e \in AllEstimates, k \in AllTasks :
            ( /\ circuitState.isOpen /\ now >= circuitState.nextAllowedTime
              /\ Check(e, k) /\ ~ret'.ok )
                => /\ circuitState'.isOpen
                   /\ circuitState'.nextAllowedTime
                        >= circuitState.nextAllowedTime + config.HALF_OPEN_TEST_INTERVAL
      ]_vars

(* C9: Check applies its tests in the order circuit-open, daily-limit,     *)
(* concurrency-limit, task-limit; it allows iff none holds and otherwise   *)
(* gives the first that holds as the reason.                               *)
C9_OrderedTests ==
    [][ \A e \in AllEstimates, k \in AllTasks :
            Check(e, k) =>
                /\ ret'.op = "check"
                /\ ret'.ok <=> ~(CircuitOpenNow \/ DailyOver(e) \/ ConcurrencyFull \/ TaskOver(e, k))
                /\ CircuitOpenNow => ret'.reason = "CIRCUIT_OPEN"
                /\ (~CircuitOpenNow /\ DailyOver(e)) => ret'.reason = "DAILY_TOKEN_LIMIT"
                /\ (~CircuitOpenNow /\ ~DailyOver(e) /\ ConcurrencyFull)
                        => ret'.reason = "CONCURRENT_LIMIT"
                /\ (~CircuitOpenNow /\ ~DailyOver(e) /\ ~ConcurrencyFull /\ TaskOver(e, k))
                        => ret'.reason = "TASK_TOKEN_LIMIT"
      ]_vars

(* the daily limit and the task cap were both reached when Check was       *)
(* called, and the reason given is the daily limit                         *)
C9_Witness ==
    /\ ~circuitState.isOpen /\ ConcurrencyFull
    /\ ret = [op |-> "check", ok |-> FALSE, reason |-> "DAILY_TOKEN_LIMIT"]

(* C10: IncrementRetry returns false iff the retry count after the         *)
(* increment exceeds maxRetries, and exactly then records a max-retries    *)
(* event.                                                                  *)
C10_RetryExhaustion ==
    [][ \A k \in RetryTaskIds :
            IncrementRetry(k) =>
                /\ ~ret'.ok <=> getRetryCount(usage', k) > config.MAX_RETRIES
                /\ ~ret'.ok <=> Len(events') > Len(events)
      ]_vars

(* C2: of N concurrent Check calls, each requesting T tokens against the   *)
(* daily budget B, with no Release or reset in between, the number that    *)
(* are allowed satisfies allowed * T <= B + maxTaskTokens.                 *)
AllowedCallers == {c \in Callers : admitOutcome[c] = "allowed"}

C2_AdmissionBound ==
    Cardinality(AllowedCallers) * admitT
        <= config.MAX_DAILY_TOKENS + config.MAX_TASK_TOKENS

(* two callers hold reservations and a third was denied for the budget     *)
C2_Witness ==
    /\ Cardinality(AllowedCallers) >= 2
    /\ \E c \in Callers : admitOutcome[c] = "denied"
    /\ ret = [op |-> "check", ok |-> FALSE, reason |-> "DAILY_TOKEN_LIMIT"]

(* C3: once every Check -> Release pair has completed, with no daily reset *)
(* in between, dailyTokens is the sum of the actual tokens released and no *)
(* task is in flight.                                                      *)
C3_ReleaseReconciles ==
    ( /\ \A p \in Pairs : pairState[p] \in {"idle", "denied", "done"}
      /\ usage.dailyTokenReset = config.TOKEN_WINDOW_MS )
        => (usage.dailyTokens = sumActual /\ usage.concurrentTasks = 0)

----------------------------------------------------------------------------
(* C4: when Agent.process has returned, on whichever exit path, every task *)
(* entry a stage of the run registered has been released: no task entry    *)
(* remains in the breaker and concurrentTasks is back to its value before  *)
(* the run, which is 0.                                                    *)
C4_ReleasedOnEveryExit ==
    agent.pc = "done" => (DOMAIN usage.tasks = {} /\ usage.concurrentTasks = 0)

(* C5: when Agent.process has returned, with no daily reset in between,    *)
(* dailyTokens has grown from 0 by exactly the sum of the actual tokens    *)
(* reported for the run's model calls.                                     *)
C5_ReservationsReconciled ==
    agent.pc = "done" => usage.dailyTokens = agent.actual

----------------------------------------------------------------------------
(* C11: for a feedback whose Tester fails the quality gate on every run,   *)
(* after at most MAX_RETRIES + 1 failed Tester runs incrementRetry has     *)
(* reported exhaustion and the feedback's status is needs_human.           *)
C11_RetryBudgetExhausted ==
    (agent.pc = "done" /\ agent.gate = "failed" /\ agent.failures >= MAX_RETRIES + 1)
        => (~agent.canRetry /\ agent.status = "needs_human")

(* C12: on every exit path of Agent.process the feedback's status has been *)
(* written to a terminal value (completed, needs_human or failed) by the   *)
(* time process returns.                                                   *)
TerminalStatuses == {"completed", "needs_human", "failed"}

C12_TerminalStatusWritten ==
    agent.pc = "done" => agent.status \in TerminalStatuses

----------------------------------------------------------------------------
(* C17: within one run of Agent.process the services are entered in the    *)
(* order Analyzer, Planner, Modifier, Tester, Publisher, each at most      *)
(* once; a service is entered only after every service before it has       *)
(* returned success, so no two of them overlap; the Planner is entered at  *)
(* most 1 + MAX_RETRIES times.                                             *)
IsPrefix(s, t) == Len(s) <= Len(t) /\ \A i \in 1..Len(s) : s[i] = t[i]

PlannerRuns == Cardinality({i \in 1..Len(agent.started) : agent.started[i] = "generate"})

C17_SequentialStages ==
    /\ IsPrefix(agent.started, Services)
    /\ \A i \in 2..Len(agent.started) : agent.started[i - 1] \in agent.succeeded
    /\ PlannerRuns <= 1 + MAX_RETRIES

(* a run that went through all five services                               *)
C17_Witness ==
    /\ agent.pc = "done" /\ agent.started = Services
    /\ agent.succeeded = ServiceSet /\ agent.status = "completed"

(* C18: process takes the needs_human exit right after the Analyzer if and *)
(* only if the analysis feasibility is low; on that exit the status is     *)
(* needs_human and no Planner, Modifier or Tester row exists; feasibility  *)
(* high or medium goes on to the Planner.                                  *)
AnalysisExit == agent.pc = "done" /\ agent.stage = "analysis" /\ agent.status = "needs_human"

C18_NeedsHumanIffLow ==
    /\ AnalysisExit => /\ agent.feasibility = "low"
                       /\ \A s \in ServiceSet \ {"analyze"} : agent.taskLog[s] = "none"
    /\ agent.feasibility = "low" => AnalysisExit
    /\ agent.feasibility \in {"high", "medium"} =>
            (agent.pc = "generate" \/ agent.taskLog["generate"] # "none")

----------------------------------------------------------------------------
(* C19: when the breaker denies a check at any stage, the run is aborted:  *)
(* process has returned without entering a later stage, it does not offer  *)
(* a retry, and the task row of the denied stage has status failed.        *)
DeniedStage == agent.started[Len(agent.started)]

C19_DenyAbortsAsFailed ==
    agent.denied # "" =>
        /\ agent.pc = "done"
        /\ ~agent.canRetry
        /\ agent.taskLog[DeniedStage] = "failed"

(* C20: the feedback's status is needs_human only when the Analyzer        *)
(* reported feasibility low or when the Tester failed the quality gate and *)
(* the retry budget is exhausted; never after a breaker denial or a thrown *)
(* error inside the Tester.                                                *)
C20_NeedsHumanOnlyTwoWays ==
    agent.status = "needs_human" =>
        \/ agent.stage = "analysis" /\ agent.feasibility = "low"
        \/ agent.stage = "test" /\ agent.gate = "failed" /\ ~agent.canRetry

----------------------------------------------------------------------------
(* C13: on every stream that reaches done, exactly one of complete or      *)
(* error was delivered before done.                                        *)
DonePositions == {i \in 1..Len(stream.log) : stream.log[i] = "done"}
TerminalsBefore(i) ==
    Cardinality({j \in 1..(i - 1) : stream.log[j] \in {"complete", "error"}})

C13_OneTerminalBeforeDone ==
    \A i \in DonePositions : TerminalsBefore(i) = 1

(* C14: connected is the first event written to the response and done the  *)
(* last: nothing precedes connected and nothing follows done.              *)
C14_ConnectedFirstDoneLast ==
    \A i \in 1..Len(stream.log) :
        /\ (i = 1) <=> (stream.log[i] = "connected")
        /\ stream.log[i] = "done" => i = Len(stream.log)

(* the run ended after done had been written: its events were not          *)
(* delivered                                                               *)
C14_Witness ==
    /\ stream.resultSent /\ Len(stream.log) >= 3
    /\ stream.log[1] = "connected" /\ stream.log[Len(stream.log)] = "done"
    /\ \A i \in 1..Len(stream.log) : stream.log[i] # "complete"

C16_SilentAfterDisconnect ==
    stream.disconnected => ~stream.lateWrite
----------------------------------------------------------------------------
(* Two feedbacks processed concurrently on one breaker, each followed      *)
(* through its Analyzer: the check of FeedbackAnalyzer.analyze for 1500    *)
(* tokens, then the check of callLLM for maxTokens 500 on the same task,   *)
(* then the model call and the release.  Every await between them lets the *)
(* other run's code in.  duo[i].admitted records that the Analyzer's check *)
(* was allowed, duo[i].error what process returns as error                 *)
(* (analysisResult.reason), duo[i].event the eventType callLLM wrote to    *)
(* the store.  The API key is set.                                         *)
Runs == 1..2
DuoDailyChoices == {2000, 2900, 3000, 3400, 3500, 3999}
DuoConfigs == {[DefaultConfig EXCEPT !.MAX_DAILY_TOKENS = d] : d \in DuoDailyChoices}

(* generateId('analyze'): one id for each run                              *)
DuoTask(i) == IF i = 1 THEN "analyze_a" ELSE "analyze_b"

duoRest == <<admitT, admitOutcome, pairState, pairTask, sumActual, agent, stream, call, req, tester, work, disk, store, logs, stages, rw, cb, smart, repo>>

InitDuo ==
    /\ \E cfg \in DuoConfigs : BreakerStart(cfg)
    /\ admitT = 0
    /\ admitOutcome = [c \in Callers |-> "none"]
    /\ pairState = [p \in Pairs |-> "none"]
    /\ pairTask = [p \in Pairs |-> NoTask]
    /\ sumActual = 0
    /\ agent = NoAgent
    /\ stream = NoStream
    /\ repo = NoRepo
    /\ smart = NoSmart
    /\ cb = NoCb
    /\ rw = NoRetry
    /\ stages = NoStages
    /\ logs = NoLogs
    /\ disk = NoDisk
    /\ store = NoStore
    /\ work = NoWork
    /\ tester = NoTester
    /\ req = NoReq
    /\ call = NoCall
    /\ duo = [i \in Runs |-> [NoRun EXCEPT !.pc = "analyze"]]

(* the breaker after a check of run i, and the run after it                *)
DuoCheck(i, est, onAllowed, onDenied(_)) ==
    LET r == check(usage, circuitState, events, now, est, DuoTask(i))
    IN  /\ usage' = r.usage
        /\ circuitState' = r.circuitState
        /\ events' = r.events
        /\ ret' = [op |-> "check", ok |-> r.allowed, reason |-> r.reason]
        /\ duo' = [duo EXCEPT ![i] = IF r.allowed THEN onAllowed ELSE onDenied(r.reason)]
        /\ UNCHANGED <<now, advances, config, duoRest>>

(* analyze denied: { success: false, reason }, which process returns as    *)
(* its error                                                               *)
analyzeDenied(i, reason) == [duo[i] EXCEPT !.pc = "done", !.error = reason]

(* callLLM denied: it records the breaker event and throws; the catch of   *)
(* analyze returns { success: false, error }, without a reason, so the     *)
(* error process returns is undefined                                      *)
callDenied(i, reason) == [duo[i] EXCEPT !.pc = "done", !.error = "undefined", !.event = reason]

duoAnalyze(i) ==
    /\ duo[i].pc = "analyze"
    /\ DuoCheck(i, 1500, [duo[i] EXCEPT !.pc = "callLLM", !.admitted = TRUE],
                LAMBDA reason : analyzeDenied(i, reason))

duoCallLLM(i) ==
    /\ duo[i].pc = "callLLM"
    /\ DuoCheck(i, maxTokens("analyze"), [duo[i] EXCEPT !.pc = "axios"],
                LAMBDA reason : callDenied(i, reason))

(* the model answered: release and the Analyzer returns success            *)
duoResponse(i, total) ==
    /\ duo[i].pc = "axios"
    /\ usage' = release(usage, DuoTask(i), IF total # 0 THEN total ELSE maxTokens("analyze"))
    /\ ret' = [op |-> "release", ok |-> TRUE, reason |-> ""]
    /\ duo' = [duo EXCEPT ![i].pc = "analyzed"]
    /\ UNCHANGED <<now, advances, config, circuitState, events, duoRest>>

(* the model call failed: release(taskId, 0), the catch of analyze         *)
duoError(i) ==
    /\ duo[i].pc = "axios"
    /\ usage' = release(usage, DuoTask(i), 0)
    /\ ret' = [op |-> "release", ok |-> TRUE, reason |-> ""]
    /\ duo' = [duo EXCEPT ![i].pc = "done", ![i].error = "undefined"]
    /\ UNCHANGED <<now, advances, config, circuitState, events, duoRest>>

NextDuo ==
    \E i \in Runs :
        \/ duoAnalyze(i)
        \/ duoCallLLM(i)
        \/ \E total \in LLMTotals : duoResponse(i, total)
        \/ duoError(i)

SpecDuo == InitDuo /\ [][NextDuo]_vars

(* C21: two feedbacks are processed concurrently and the daily budget      *)
(* covers the Analyzer reservations of one of them (1500 + 500) but not of *)
(* both; once both runs are through their Analyzer, exactly one Analyzer   *)
(* was admitted by the breaker and the other run has ended with the        *)
(* daily-limit reason as its error.                                        *)
DuoSettled == \A i \in Runs : duo[i].pc \in {"analyzed", "done"}

C21_OneAnalyzerAdmitted ==
    (DuoSettled /\ config.MAX_DAILY_TOKENS >= 2000 /\ config.MAX_DAILY_TOKENS < 4000)
        => \E i \in Runs :
              /\ duo[i].admitted
              /\ ~duo[3 - i].admitted
              /\ duo[3 - i].pc = "done" /\ duo[3 - i].error = "DAILY_TOKEN_LIMIT"
----------------------------------------------------------------------------
(* callLLM(messages, options), invocation after invocation on one breaker: *)
(* the options are maxTokens (the estimate) and taskId, null when the      *)
(* caller passes none.                                                     *)
MaxCalls == 2
CallDailyChoices == {1200, 1000000}
CallConfigs == {[DefaultConfig EXCEPT !.MAX_DAILY_TOKENS = d] : d \in CallDailyChoices}
CallEstimates == {300, 500, 1000}
CallTasks == {NoTask, "t1"}

callRest == <<admitT, admitOutcome, pairState, pairTask, sumActual, agent, stream, duo, req, tester, work, disk, store, logs, stages, rw, cb, smart, repo>>

InitCall ==
    /\ \E cfg \in CallConfigs : BreakerStart(cfg)
    /\ admitT = 0
    /\ admitOutcome = [c \in Callers |-> "none"]
    /\ pairState = [p \in Pairs |-> "none"]
    /\ pairTask = [p \in Pairs |-> NoTask]
    /\ sumActual = 0
    /\ agent = NoAgent
    /\ stream = NoStream
    /\ repo = NoRepo
    /\ smart = NoSmart
    /\ cb = NoCb
    /\ rw = NoRetry
    /\ stages = NoStages
    /\ logs = NoLogs
    /\ disk = NoDisk
    /\ store = NoStore
    /\ work = NoWork
    /\ tester = NoTester
    /\ req = NoReq
    /\ duo = NoDuo
    /\ call \in {[NoCall EXCEPT !.apiKey = k] : k \in BOOLEAN}

(* callLLM is entered; without an API key it throws before the check       *)
callStart(est, taskId) ==
    /\ call.pc \in {"idle", "returned", "thrown"}
    /\ call.n < MaxCalls
    /\ call' = [NoCall EXCEPT !.pc = IF call.apiKey THEN "check" ELSE "thrown",
                              !.n = call.n + 1, !.apiKey = call.apiKey,
                              !.est = est, !.taskId = taskId]
    /\ UNCHANGED <<now, advances, config, usage, circuitState, events, ret, callRest>>

(* await circuitBreaker.check('llm', apiCallType, estimatedTokens, taskId); *)
(* denied: recordCircuitBreakerEvent and throw; allowed: axios.post        *)
callCheck ==
    /\ call.pc = "check"
    /\ LET r == check(usage, circuitState, events, now, call.est, call.taskId)
       IN  /\ usage' = r.usage
           /\ circuitState' = r.circuitState
           /\ events' = r.events
           /\ ret' = [op |-> "check", ok |-> r.allowed, reason |-> r.reason]
           /\ call' = IF r.allowed
                      THEN [call EXCEPT !.pc = "axios", !.checked = "allowed",
                                        !.sent = call.sent + 1]
                      ELSE [call EXCEPT !.pc = "thrown", !.checked = "denied",
                                        !.breakerEvents = Append(call.breakerEvents, r.reason)]
    /\ UNCHANGED <<now, advances, config, callRest>>

(* the response: recordTokenUsage(success: true, totalTokens:              *)
(* usage?.total_tokens || 0), release(taskId, usage?.total_tokens ||       *)
(* estimatedTokens), return                                                *)
callResponse(total) ==
    /\ call.pc = "axios"
    /\ LET released == IF total # 0 THEN total ELSE call.est
       IN  /\ usage' = release(usage, call.taskId, released)
           /\ call' = [call EXCEPT
                          !.pc = "returned", !.total = total,
                          !.rows = Append(call.rows, [success |-> TRUE, totalTokens |-> total]),
                          !.releases = Append(call.releases,
                                              [taskId |-> call.taskId, tokens |-> released])]
    /\ ret' = [op |-> "release", ok |-> TRUE, reason |-> ""]
    /\ UNCHANGED <<now, advances, config, circuitState, events, callRest>>

callError_NoRow ==
    /\ call.pc = "axios"
    /\ usage' = release(usage, call.taskId, 0)
    /\ call' = [call EXCEPT
                   !.pc = "thrown",
                   !.releases = Append(call.releases, [taskId |-> call.taskId, tokens |-> 0])]
    /\ ret' = [op |-> "release", ok |-> TRUE, reason |-> ""]
    /\ UNCHANGED <<now, advances, config, circuitState, events, callRest>>

(* the catch: recordTokenUsage(success: false, totalTokens: 0),            *)
(* release(taskId, 0), rethrow                                             *)
callError ==
    /\ call.pc = "axios"
    /\ usage' = release(usage, call.taskId, 0)
    /\ call' = [call EXCEPT
                   !.pc = "thrown",
                   !.rows = Append(call.rows, [success |-> FALSE, totalTokens |-> 0]),
                   !.releases = Append(call.releases, [taskId |-> call.taskId, tokens |-> 0])]
    /\ ret' = [op |-> "release", ok |-> TRUE, reason |-> ""]
    /\ UNCHANGED <<now, advances, config, circuitState, events, callRest>>

NextCall ==
    \/ \E est \in CallEstimates, taskId \in CallTasks : callStart(est, taskId)
    \/ callCheck
    \/ \E total \in LLMTotals : callResponse(total)
    \/ callError

SpecCall == InitCall /\ [][NextCall]_vars

(* What an invocation of callLLM did, once it has returned or thrown.      *)
CallOver == call.pc \in {"returned", "thrown"}

DeniedCall ==
    /\ call.pc = "thrown" /\ call.sent = 0
    /\ Len(call.breakerEvents) = 1
    /\ call.rows = <<>> /\ call.releases = <<>>

OneRowOneRelease ==
    /\ call.sent = 1 /\ call.breakerEvents = <<>>
    /\ Len(call.rows) = 1 /\ Len(call.releases) = 1
    /\ call.releases[1].taskId = call.taskId
    /\ call.pc = "thrown" =>
            /\ call.rows[1] = [success |-> FALSE, totalTokens |-> 0]
            /\ call.releases[1].tokens = 0
    /\ call.pc = "returned" => call.rows[1] = [success |-> TRUE, totalTokens |-> call.total]

(* C22 as stated: a denied callLLM sends no request, writes one breaker    *)
(* event and fails; an allowed one writes exactly one token-usage row and  *)
(* calls release exactly once, with the actual tokens on success and with  *)
(* 0 on error.                                                             *)
C22_OneRowOneReleaseActual ==
    /\ (CallOver /\ call.checked = "denied") => DeniedCall
    /\ (CallOver /\ call.checked = "allowed") =>
            /\ OneRowOneRelease
            /\ call.pc = "returned" => call.releases[1].tokens = call.total

(* C22, amended: on success release is called with the total_tokens of the *)
(* response, and with the estimate (maxTokens) when the response reports   *)
(* none.                                                                   *)
C22_OneRowOneRelease ==
    /\ (CallOver /\ call.checked = "denied") => DeniedCall
    /\ (CallOver /\ call.checked = "allowed") =>
            /\ OneRowOneRelease
            /\ call.pc = "returned" =>
                    call.releases[1].tokens = IF call.total # 0 THEN call.total ELSE call.est

(* a second invocation was denied for the daily limit after the first had  *)
(* failed in the model call                                                *)
C22_Witness ==
    /\ call.n = 2 /\ call.checked = "denied" /\ call.pc = "thrown"
    /\ call.breakerEvents = <<"DAILY_TOKEN_LIMIT">>
----------------------------------------------------------------------------
(* C23: on the happy path (the run ended in stage completed, the           *)
(* subscriber stayed and the response has been closed with done) the       *)
(* events written to the response are exactly connected, stage(analyzing), *)
(* intent, stage(generating), suggestion, stage(testing),                  *)
(* test_result(passed), pr, complete, done.                                *)
HappyPathEvents ==
    <<"connected", "stage(analyzing)", "intent", "stage(generating)", "suggestion",
      "stage(testing)", "test_result(passed)", "pr", "complete", "done">>

HappyPathOver ==
    /\ stream.hasAgent /\ ~stream.disconnected
    /\ agent.pc = "done" /\ agent.stage = "completed"
    /\ stream.resultSent /\ stream.ended

C23_HappyPathOrder == HappyPathOver => stream.log = HappyPathEvents
----------------------------------------------------------------------------
(* POST /api/agent/process and POST /api/agent/process/stream, the head of *)
(* the handlers: the test of the content, the feedback row, the start of   *)
(* the run.  A content is a string over a whitespace character of each     *)
(* kind and a letter, or undefined when the body has no content.           *)
MaxContent == 2
MaxRequests == 2
Undefined == <<"undefined">>
Chars == {" ", "\t", "a"}
WhiteSpace == {" ", "\t"}
Strings == UNION {[1..n -> Chars] : n \in 0..MaxContent}
Contents == Strings \cup {Undefined}
Routes == {"process", "stream"}

(* String.prototype.trim                                                   *)
RECURSIVE trimStart(_)
trimStart(str) ==
    IF str # <<>> /\ Head(str) \in WhiteSpace THEN trimStart(Tail(str)) ELSE str

RECURSIVE trimEnd(_)
trimEnd(str) ==
    IF str # <<>> /\ str[Len(str)] \in WhiteSpace
    THEN trimEnd(SubSeq(str, 1, Len(str) - 1))
    ELSE str

trim(str) == trimEnd(trimStart(str))

rejected_NoTrim(content) == content = Undefined \/ content = <<>>

(* !content?.trim()                                                        *)
rejected(content) == content = Undefined \/ trim(content) = <<>>

reqRest == <<admitT, admitOutcome, pairState, pairTask, sumActual, agent, stream, duo, call, tester, work, disk, store, logs, stages, rw, cb, smart, repo>>

InitRequests ==
    /\ BreakerStart(DefaultConfig)
    /\ admitT = 0
    /\ admitOutcome = [c \in Callers |-> "none"]
    /\ pairState = [p \in Pairs |-> "none"]
    /\ pairTask = [p \in Pairs |-> NoTask]
    /\ sumActual = 0
    /\ agent = NoAgent
    /\ stream = NoStream
    /\ repo = NoRepo
    /\ smart = NoSmart
    /\ cb = NoCb
    /\ rw = NoRetry
    /\ stages = NoStages
    /\ logs = NoLogs
    /\ disk = NoDisk
    /\ store = NoStore
    /\ work = NoWork
    /\ tester = NoTester
    /\ duo = NoDuo
    /\ call = NoCall
    /\ req = NoReq

(* a request arrives: the handler tests the content and answers 400, or    *)
(* goes on to the feedback row                                             *)
request(route, content) ==
    /\ req.pc \in {"idle", "answered"}
    /\ req.n < MaxRequests
    /\ req' = [req EXCEPT !.pc = IF rejected(content) THEN "answered" ELSE "createFeedback",
                          !.n = req.n + 1, !.route = route, !.content = content,
                          !.status = IF rejected(content) THEN 400 ELSE 0,
                          !.created = FALSE, !.started = FALSE]
    /\ UNCHANGED <<breakerVars, reqRest>>

(* await database.createFeedback(feedback); feedbackStore.unshift(feedback) *)
createFeedback ==
    /\ req.pc = "createFeedback"
    /\ req' = [req EXCEPT !.pc = "process", !.created = TRUE,
                          !.feedback = req.feedback + 1,
                          !.feedbackStore = req.feedbackStore + 1]
    /\ UNCHANGED <<breakerVars, reqRest>>

(* agent.process(feedback) is started and the request is answered          *)
startProcess ==
    /\ req.pc = "process"
    /\ req' = [req EXCEPT !.pc = "answered", !.started = TRUE, !.status = 200]
    /\ UNCHANGED <<breakerVars, reqRest>>

NextRequests ==
    \/ \E route \in Routes, content \in Contents : request(route, content)
    \/ createFeedback
    \/ startProcess

SpecRequests == InitRequests /\ [][NextRequests]_vars

(* C24: a submission to POST /agent/process or POST /agent/process/stream  *)
(* whose content is empty or consists of whitespace only is answered with  *)
(* 400, writes no feedback row (neither to the store nor to the in-memory  *)
(* list) and starts no run; the rows that exist are those of the           *)
(* submissions with other content.                                         *)
Blank(content) == content # Undefined /\ \A i \in 1..Len(content) : content[i] \in WhiteSpace

C24_BlankRejected ==
    /\ []((req.pc # "idle" /\ Blank(req.content)) =>
            (/\ req.pc = "answered" /\ req.status = 400
             /\ ~req.created /\ ~req.started))
    /\ [][(Blank(req'.content) /\ req'.n # req.n) =>
                (req'.feedback = req.feedback /\ req'.feedbackStore = req.feedbackStore)]_vars

(* a whitespace-only submission to the stream route was answered 400 after *)
(* an earlier submission had been accepted                                 *)
C24_Witness ==
    /\ req.route = "stream" /\ req.content = <<" ", "\t">>
    /\ req.status = 400 /\ req.feedback = 1 /\ req.feedbackStore = 1
----------------------------------------------------------------------------
(* TestService.runTests of unnamed/part_001 from runBrowserTests on, and   *)
(* the branch Agent.process takes on its result.  The test cases are those *)
(* generateTestCases returned (none when the model's answer holds no JSON  *)
(* array); the browser is there, or the puppeteer module is absent, or no  *)
(* Chrome binary is found.                                                 *)
MIN_CASES == 3
SCORE_THRESHOLD == 7
MaxCases == 3
Browsers == {"ok", "no_puppeteer", "no_chrome"}
Scores == {0, 5, 8}
TesterDailyChoices == {400, 700, 1000000}
TesterConfigs == {[DefaultConfig EXCEPT !.MAX_DAILY_TOKENS = d] : d \in TesterDailyChoices}

testerRest == <<admitT, admitOutcome, pairState, pairTask, sumActual, agent, stream, duo, call, req, work, disk, store, logs, stages, rw, cb, smart, repo>>

InitTester ==
    /\ \E cfg \in TesterConfigs : BreakerStart(cfg)
    /\ admitT = 0
    /\ admitOutcome = [c \in Callers |-> "none"]
    /\ pairState = [p \in Pairs |-> "none"]
    /\ pairTask = [p \in Pairs |-> NoTask]
    /\ sumActual = 0
    /\ agent = NoAgent
    /\ stream = NoStream
    /\ repo = NoRepo
    /\ smart = NoSmart
    /\ cb = NoCb
    /\ rw = NoRetry
    /\ stages = NoStages
    /\ logs = NoLogs
    /\ disk = NoDisk
    /\ store = NoStore
    /\ work = NoWork
    /\ duo = NoDuo
    /\ call = NoCall
    /\ req = NoReq
    /\ tester \in {[NoTester EXCEPT !.pc = "runBrowserTests", !.cases = n, !.browser = b] :
                        n \in 0..MaxCases, b \in Browsers}

(* the error each case of the report carries when the browser is missing   *)
browserError(b) ==
    IF b = "no_puppeteer" THEN "Puppeteer not installed" ELSE "Chrome executable not found"

(* the report returned without a browser: by the test of puppeteer, or by  *)
(* the catch around the launch                                             *)
failedReport(n, error) ==
    [passed |-> FALSE, testsRun |-> n, testsPassed |-> 0, testsFailed |-> n,
     details |-> [i \in 1..n |-> [status |-> "failed", error |-> error]]]

(* the report of the cases that ran: results[i] is the status of case i    *)
browserReport(results) ==
    LET passedCount == Cardinality({i \in 1..Len(results) : results[i] = "passed"})
    IN  [passed |-> (passedCount = Len(results)), testsRun |-> Len(results),
         testsPassed |-> passedCount, testsFailed |-> Len(results) - passedCount,
         details |-> [i \in 1..Len(results) |-> [status |-> results[i], error |-> "null"]]]

runBrowserTests_Rethrows(t, results) ==
    IF t.browser = "no_puppeteer"
    THEN [t EXCEPT !.pc = "evaluate", !.report = failedReport(t.cases, browserError(t.browser))]
    ELSE IF t.browser = "no_chrome"
    THEN [t EXCEPT !.pc = "done", !.threw = TRUE, !.row = "failed", !.outcome = "needs_human"]
    ELSE [t EXCEPT !.pc = "evaluate", !.report = browserReport(results)]

(* TestService.runBrowserTests(testCases, modification)                    *)
runBrowserTestsOf(t, results) ==
    IF t.browser # "ok"
    THEN [t EXCEPT !.pc = "evaluate", !.report = failedReport(t.cases, browserError(t.browser))]
    ELSE [t EXCEPT !.pc = "evaluate", !.report = browserReport(results)]

testerBrowser(results) ==
    /\ tester.pc = "runBrowserTests"
    /\ tester' = runBrowserTestsOf(tester, results)
    /\ UNCHANGED <<breakerVars, testerRest>>

(* a check of the Tester with task id null: the breaker after it           *)
TesterCheck(est, onAllowed, onDenied) ==
    LET r == check(usage, circuitState, events, now, est, NoTask)
    IN  /\ usage' = r.usage
        /\ circuitState' = r.circuitState
        /\ events' = r.events
        /\ ret' = [op |-> "check", ok |-> r.allowed, reason |-> r.reason]
        /\ tester' = IF r.allowed THEN onAllowed ELSE onDenied
        /\ UNCHANGED <<now, advances, config, testerRest>>

(* an error thrown inside the try of runTests: the catch writes the row    *)
(* and returns { success: false, error }; process finds neither passed nor *)
(* canRetry                                                                *)
testerThrown == [tester EXCEPT !.pc = "done", !.threw = TRUE, !.row = "failed",
                               !.outcome = "needs_human"]

(* evaluateTestResults: check(500, null); denied, it returns null          *)
testerEvaluate ==
    /\ tester.pc = "evaluate"
    /\ TesterCheck(500, [tester EXCEPT !.pc = "callLLM"], [tester EXCEPT !.pc = "gate"])

(* evaluateTestResults, callLLM with maxTokens 300: denied, it throws      *)
testerCallLLM ==
    /\ tester.pc = "callLLM"
    /\ TesterCheck(maxTokens("evaluateTestResults"), [tester EXCEPT !.pc = "axios"], testerThrown)

(* the evaluation parsed from the model's answer, with its score           *)
testerResponse(score, total) ==
    /\ tester.pc = "axios"
    /\ usage' = release(usage, NoTask, IF total # 0 THEN total ELSE maxTokens("evaluateTestResults"))
    /\ ret' = [op |-> "release", ok |-> TRUE, reason |-> ""]
    /\ tester' = [tester EXCEPT !.pc = "gate", !.evaluated = TRUE, !.score = score]
    /\ UNCHANGED <<now, advances, config, circuitState, events, testerRest>>

testerError ==
    /\ tester.pc = "axios"
    /\ usage' = release(usage, NoTask, 0)
    /\ ret' = [op |-> "release", ok |-> TRUE, reason |-> ""]
    /\ tester' = testerThrown
    /\ UNCHANGED <<now, advances, config, circuitState, events, testerRest>>

(* passRate === 1 with passRate = testsPassed / testsRun: 0 / 0 is NaN     *)
testPassRate(report) == report.testsRun # 0 /\ report.testsPassed = report.testsRun

(* the quality gate of runTests                                            *)
qualityGateOf(report, score) ==
    [testPassRate |-> testPassRate(report),
     coverage |-> (report.testsRun >= MIN_CASES),
     llmQualityScore |-> IF score # 0
                         THEN (IF score >= SCORE_THRESHOLD THEN "true" ELSE "false")
                         ELSE "null"]

(* const passed = qualityGate.testPassRate                                 *)
passedOf(gate) == gate.testPassRate

(* runTests from the quality gate on and the branch of process: passed, it *)
(* goes on to the Publisher; otherwise incrementRetry(feedbackId) decides  *)
(* between the return with canRetry and needs_human                        *)
testerGate ==
    /\ tester.pc = "gate"
    /\ LET gate == qualityGateOf(tester.report, tester.score)
           passed == passedOf(gate)
           r == incrementRetry(usage, circuitState, events, now, FeedbackId)
       IN  IF passed
           THEN /\ tester' = [tester EXCEPT !.pc = "done", !.gate = gate, !.passed = TRUE,
                                            !.row = "tested", !.outcome = "publish"]
                /\ UNCHANGED <<usage, circuitState, events, ret>>
           ELSE /\ usage' = r.usage
                /\ circuitState' = r.circuitState
                /\ events' = r.events
                /\ ret' = [op |-> "incrementRetry", ok |-> r.result, reason |-> ""]
                /\ tester' = [tester EXCEPT !.pc = "done", !.gate = gate, !.passed = FALSE,
                                            !.canRetry = r.result, !.row = "failed",
                                            !.outcome = IF r.result THEN "canRetry"
                                                        ELSE "needs_human"]
    /\ UNCHANGED <<now, advances, config, testerRest>>

NextTester ==
    \/ \E results \in [1..tester.cases -> {"passed", "failed"}] : testerBrowser(results)
    \/ testerEvaluate
    \/ testerCallLLM
    \/ \E score \in Scores, total \in LLMTotals : testerResponse(score, total)
    \/ testerError
    \/ testerGate

SpecTester == InitTester /\ [][NextTester]_vars

(* C25: the Tester reports passed if and only if every case passed, at     *)
(* least MIN_CASES cases were run and, when the evaluation gives a score,  *)
(* the score reaches the threshold.                                        *)
C25_QualityGate ==
    (tester.pc = "done" /\ ~tester.threw) =>
        (tester.passed <=>
            /\ tester.report.testsPassed = tester.report.testsRun
            /\ tester.report.testsRun >= MIN_CASES
            /\ tester.score # 0 => tester.score >= SCORE_THRESHOLD)

(* C26: when the browser cannot be located (no puppeteer module, no Chrome *)
(* binary) runBrowserTests does not throw: it returns a failed report in   *)
(* which every case is failed and carries the reason, and the run goes on  *)
(* to the quality gate, which fails: the Tester's row is failed, process   *)
(* returns with canRetry and never goes on to the Publisher.               *)
BrowserMissing == tester.browser \in {"no_puppeteer", "no_chrome"}

C26_BrowserMissingFailsGate ==
    (BrowserMissing /\ tester.pc # "runBrowserTests") =>
        /\ ~tester.report.passed
        /\ tester.report.testsRun = tester.cases /\ tester.report.testsPassed = 0
        /\ Len(tester.report.details) = tester.cases
        /\ \A i \in 1..tester.cases :
                tester.report.details[i] =
                    [status |-> "failed", error |-> browserError(tester.browser)]
        /\ tester.outcome # "publish"
        /\ (tester.pc = "done" /\ ~tester.threw) =>
                /\ ~tester.passed /\ tester.row = "failed"
                /\ tester.outcome = "canRetry"

(* no Chrome binary, three test cases: the report came back, the           *)
(* evaluation gave a passing score and the gate failed                     *)
C26_Witness ==
    /\ tester.browser = "no_chrome" /\ tester.cases = 3
    /\ tester.pc = "done" /\ tester.score = 8 /\ tester.outcome = "canRetry"
----------------------------------------------------------------------------
(* C27: dailyTokens is never negative, whatever the callers do: also when  *)
(* the housekeeping tick resets the day between a task's Check and its     *)
(* Release, and when fewer tokens are released than were reserved.         *)
C27_DailyTokensNonNegative == usage.dailyTokens >= 0

(* the day was reset at the current time, after a Check was allowed at     *)
(* that time, and the task has been released: the count is 0               *)
C27_Witness ==
    /\ usage.dailyTokens = 0 /\ usage.dailyTokenReset = now + config.TOKEN_WINDOW_MS
    /\ Len(events) = 1 /\ events[1].allowed /\ events[1].timestamp = now
    /\ ret.op = "release" /\ DOMAIN usage.tasks = {}
----------------------------------------------------------------------------
(* CodeModifier.applyChanges for two feedbacks processed concurrently in   *)
(* the one Node process, on the one working directory (WORK_DIR).  The     *)
(* process executes one run's code at a time and turns to another run only *)
(* at an await: work.thread is the run that is executing.  From the        *)
(* continuation of await circuitBreaker.check to await                     *)
(* database.addTaskStage the code is synchronous (execSync, fs.*Sync).     *)
ModifierConcurrentChoices == {1, 2, 10}
ModifierConfigs ==
    {[DefaultConfig EXCEPT !.MAX_CONCURRENT_TASKS = c] : c \in ModifierConcurrentChoices}

(* generateId('modify'): one id for each run                               *)
ModifyTask(i) == IF i = 1 THEN "modify_a" ELSE "modify_b"

workRest == <<admitT, admitOutcome, pairState, pairTask, sumActual, agent, stream, duo, call, req, tester, disk, store, logs, stages, rw, cb, smart, repo>>

InitModifiers ==
    /\ \E cfg \in ModifierConfigs : BreakerStart(cfg)
    /\ admitT = 0
    /\ admitOutcome = [c \in Callers |-> "none"]
    /\ pairState = [p \in Pairs |-> "none"]
    /\ pairTask = [p \in Pairs |-> NoTask]
    /\ sumActual = 0
    /\ agent = NoAgent
    /\ stream = NoStream
    /\ repo = NoRepo
    /\ smart = NoSmart
    /\ cb = NoCb
    /\ rw = NoRetry
    /\ stages = NoStages
    /\ logs = NoLogs
    /\ disk = NoDisk
    /\ store = NoStore
    /\ duo = NoDuo
    /\ call = NoCall
    /\ req = NoReq
    /\ tester = NoTester
    /\ work = [NoWork EXCEPT !.pc = [i \in Runs |-> "applyChanges"]]

(* the event loop runs a continuation of run i when no other run's code is *)
(* executing                                                               *)
MayRun(i) == work.thread \in {0, i}

(* an operation of run i on the working directory                          *)
Did(i, op) == Append(work.ops, [run |-> i, op |-> op])

(* applyChanges up to its first await: await database.createTaskLog        *)
modifierStart(i) ==
    /\ work.pc[i] = "applyChanges" /\ MayRun(i)
    /\ work' = [work EXCEPT !.pc[i] = "check", !.thread = 0]
    /\ UNCHANGED <<breakerVars, workRest>>

(* applyChanges, the task row written: await circuitBreaker.check          *)
modifierCheck(i) ==
    /\ work.pc[i] = "check" /\ MayRun(i)
    /\ LET r == check(usage, circuitState, events, now, 0, ModifyTask(i))
       IN  /\ usage' = r.usage
           /\ circuitState' = r.circuitState
           /\ events' = r.events
           /\ ret' = [op |-> "check", ok |-> r.allowed, reason |-> r.reason]
           /\ work' = [work EXCEPT !.pc[i] = IF r.allowed THEN "checkout" ELSE "denied",
                                   !.thread = 0]
    /\ UNCHANGED <<now, advances, config, workRest>>

(* the continuation of a denied check: await database.addTaskStage, return *)
modifierDenied(i) ==
    /\ work.pc[i] = "denied" /\ MayRun(i)
    /\ work' = [work EXCEPT !.pc[i] = "done", !.thread = 0]
    /\ UNCHANGED <<breakerVars, workRest>>

checkout_Async(i, ok) ==
    /\ work.pc[i] = "checkout" /\ MayRun(i)
    /\ work' = IF ok
               THEN [work EXCEPT !.pc[i] = "write", !.thread = 0, !.ops = Did(i, "checkout")]
               ELSE [work EXCEPT !.pc[i] = "done", !.thread = 0, !.ops = Did(i, "checkout")]
    /\ UNCHANGED <<breakerVars, workRest>>

(* ensureRepo and execSync('git checkout -b ...'): the run goes on without *)
(* an await, or both attempts throw into the catch, which awaits           *)
checkout(i, ok) ==
    /\ work.pc[i] = "checkout" /\ MayRun(i)
    /\ work' = IF ok
               THEN [work EXCEPT !.pc[i] = "write", !.thread = i, !.ops = Did(i, "checkout")]
               ELSE [work EXCEPT !.pc[i] = "done", !.thread = 0, !.ops = Did(i, "checkout")]
    /\ UNCHANGED <<breakerVars, workRest>>

(* fs.writeFileSync(targetFile, ...); it throws into the catch, or the     *)
(* solution names no file and nothing is written or committed              *)
writeFile(i, outcome) ==
    /\ work.pc[i] = "write" /\ MayRun(i)
    /\ work' = CASE outcome = "written" ->
                        [work EXCEPT !.pc[i] = "commit", !.thread = i, !.ops = Did(i, "write")]
                 [] outcome = "thrown" ->
                        [work EXCEPT !.pc[i] = "done", !.thread = 0, !.ops = Did(i, "write")]
                 [] outcome = "nothing" ->
                        [work EXCEPT !.pc[i] = "done", !.thread = 0]
    /\ UNCHANGED <<breakerVars, workRest>>

(* execSync('git add -A'), execSync('git commit ...'), a failure is caught *)
(* and logged; then await database.addTaskStage                            *)
commit(i) ==
    /\ work.pc[i] = "commit" /\ MayRun(i)
    /\ work' = [work EXCEPT !.pc[i] = "done", !.thread = 0, !.ops = Did(i, "commit")]
    /\ UNCHANGED <<breakerVars, workRest>>

NextModifiers ==
    \E i \in Runs :
        \/ modifierStart(i)
        \/ modifierCheck(i)
        \/ modifierDenied(i)
        \/ \E ok \in BOOLEAN : checkout(i, ok)
        \/ \E outcome \in {"written", "thrown", "nothing"} : writeFile(i, outcome)
        \/ commit(i)

SpecModifiers == InitModifiers /\ [][NextModifiers]_vars

(* C28: at most one run of applyChanges is between its checkout and its    *)
(* commit at a time, and the operations of one run on the working          *)
(* directory are never separated by an operation of the other.             *)
Operating(i) == work.pc[i] \in {"write", "commit"}

C28_OneModifierAtATime ==
    /\ ~(Operating(1) /\ Operating(2))
    /\ \A j, k, l \in 1..Len(work.ops) :
            (j < k /\ k < l /\ work.ops[j].run = work.ops[l].run)
                => work.ops[k].run = work.ops[j].run

(* both runs were admitted, and each did its checkout, write and commit    *)
C28_Witness ==
    /\ \A i \in Runs : work.pc[i] = "done"
    /\ Len(work.ops) = 6
    /\ \A i \in Runs : \E j \in 1..Len(work.ops) :
            work.ops[j] = [run |-> i, op |-> "commit"]
----------------------------------------------------------------------------
(* VersionManager of server/smart-test-system.js: createSnapshot,          *)
(* restoreSnapshot and, between them, any change of the listed files.  A   *)
(* snapshot id is snap_<Date.now()>_<name>; the ids are numbered in the    *)
(* order of creation, which is their sort order.  maxSnapshots is an       *)
(* option of the constructor (default 10) and is small here so that old    *)
(* snapshots are cleaned.                                                  *)
SmallMaxSnapshots == 1
MaxTaken == 2
MaxMutations == 2
FileStates == {"absent", "v1", "v2"}
InitialFileStates == {"absent", "v1"}

diskRest == <<admitT, admitOutcome, pairState, pairTask, sumActual, agent, stream, duo, call, req, tester, work, store, logs, stages, rw, cb, smart, repo>>

InitSnapshots ==
    /\ BreakerStart(DefaultConfig)
    /\ admitT = 0
    /\ admitOutcome = [c \in Callers |-> "none"]
    /\ pairState = [p \in Pairs |-> "none"]
    /\ pairTask = [p \in Pairs |-> NoTask]
    /\ sumActual = 0
    /\ agent = NoAgent
    /\ stream = NoStream
    /\ repo = NoRepo
    /\ smart = NoSmart
    /\ cb = NoCb
    /\ rw = NoRetry
    /\ stages = NoStages
    /\ logs = NoLogs
    /\ duo = NoDuo
    /\ call = NoCall
    /\ req = NoReq
    /\ tester = NoTester
    /\ work = NoWork
    /\ store = NoStore
    /\ \E fs \in [SnapshotFiles -> InitialFileStates] : disk = [NoDisk EXCEPT !.files = fs]

(* the copies a new snapshot holds: fs.copyFileSync for each listed file   *)
(* that exists                                                             *)
copied(files) == [f \in {g \in SnapshotFiles : files[g] # "absent"} |-> files[f]]

(* cleanOldSnapshots: of the directories sorted newest first, those after  *)
(* the first maxSnapshots are removed                                      *)
cleanOldSnapshots(snaps) ==
    LET ids == DOMAIN snaps
        newer(id) == Cardinality({j \in ids : j > id})
    IN  [id \in {j \in ids : newer(j) < SmallMaxSnapshots} |-> snaps[id]]

(* createSnapshot(name): the snapshot directory, its copies, its metadata  *)
(* (files: every listed file), the cleaning of old snapshots               *)
createSnapshot ==
    /\ disk.nextId <= MaxTaken
    /\ LET id == disk.nextId
           snap == [copies |-> copied(disk.files), files |-> SnapshotFiles]
           snaps == [j \in DOMAIN disk.snapshots \cup {id} |->
                        IF j = id THEN snap ELSE disk.snapshots[j]]
       IN  disk' = [disk EXCEPT !.snapshots = cleanOldSnapshots(snaps),
                                !.taken = [j \in DOMAIN disk.taken \cup {id} |->
                                              IF j = id THEN disk.files ELSE disk.taken[j]],
                                !.nextId = id + 1, !.returned = FALSE]
    /\ UNCHANGED <<breakerVars, diskRest>>

(* a listed file is changed, deleted or created                            *)
mutate(f, content) ==
    /\ disk.mutations < MaxMutations
    /\ disk.taken # <<>>
    /\ disk.files[f] # content
    /\ disk' = [disk EXCEPT !.files[f] = content, !.mutations = disk.mutations + 1,
                            !.returned = FALSE]
    /\ UNCHANGED <<breakerVars, diskRest>>

(* the files after restoreSnapshot(snapshotId): nothing when the snapshot  *)
(* directory does not exist; otherwise each file of the metadata that the  *)
(* snapshot holds a copy of is copied back                                 *)
restoreSnapshot(files, snaps, id) ==
    IF id \notin DOMAIN snaps
    THEN files
    ELSE [f \in SnapshotFiles |->
            IF f \in snaps[id].files /\ f \in DOMAIN snaps[id].copies
            THEN snaps[id].copies[f]
            ELSE files[f]]

restore(id) ==
    /\ disk' = [disk EXCEPT !.files = restoreSnapshot(disk.files, disk.snapshots, id),
                            !.restored = id, !.returned = TRUE]
    /\ UNCHANGED <<breakerVars, diskRest>>

NextSnapshots ==
    \/ createSnapshot
    \/ \E f \in SnapshotFiles, content \in FileStates : mutate(f, content)
    \/ \E id \in DOMAIN disk.taken : restore(id)

SpecSnapshots == InitSnapshots /\ [][NextSnapshots]_vars

(* C29: when restoreSnapshot(id) has returned, for an id that              *)
(* createSnapshot returned, every listed file is in the state it had when  *)
(* the snapshot was created, whatever was changed, deleted or created      *)
(* since.                                                                  *)
C29_SnapshotRoundTrip ==
    (disk.returned /\ disk.restored # 0) => disk.files = disk.taken[disk.restored]
----------------------------------------------------------------------------
(* The Store's retention (server/database.js): createFeedback,             *)
(* createTaskLog, recordTokenUsage and recordCircuitBreakerEvent put the   *)
(* new record at the head of their list and cut the list to its cap.       *)
FEEDBACK_CAP == 1000
TASK_LOG_CAP == 1000
TOKEN_USAGE_CAP == 5000
BREAKER_EVENT_CAP == 1000
MaxStoreOps == 2

capOf(l) ==
    CASE l = "feedback" -> FEEDBACK_CAP
      [] l = "taskLogs" -> TASK_LOG_CAP
      [] l = "tokenUsage" -> TOKEN_USAGE_CAP
      [] l = "circuitBreakerEvents" -> BREAKER_EVENT_CAP

(* the list after n records were created in an empty Store, n <= cap        *)
filled(n) == [i \in 1..n |-> n - i + 1]

storeRest == <<admitT, admitOutcome, pairState, pairTask, sumActual, agent, stream, duo, call, req, tester, work, disk, logs, stages, rw, cb, smart, repo>>

InitStore ==
    /\ BreakerStart(DefaultConfig)
    /\ admitT = 0
    /\ admitOutcome = [c \in Callers |-> "none"]
    /\ pairState = [p \in Pairs |-> "none"]
    /\ pairTask = [p \in Pairs |-> NoTask]
    /\ sumActual = 0
    /\ agent = NoAgent
    /\ stream = NoStream
    /\ repo = NoRepo
    /\ smart = NoSmart
    /\ cb = NoCb
    /\ rw = NoRetry
    /\ stages = NoStages
    /\ logs = NoLogs
    /\ duo = NoDuo
    /\ call = NoCall
    /\ req = NoReq
    /\ tester = NoTester
    /\ work = NoWork
    /\ disk = NoDisk
    /\ \E n \in [StoreLists -> {0, 1}] :
          store = [lists |-> [l \in StoreLists |->
                                 filled(IF n[l] = 0 THEN 0 ELSE capOf(l) - 1)],
                   created |-> [l \in StoreLists |-> IF n[l] = 0 THEN 0 ELSE capOf(l) - 1],
                   ops |-> [l \in StoreLists |-> 0]]

(* list.unshift(item); if (list.length > cap) list = list.slice(0, cap)    *)
unshiftCapped_DropNewest(list, item, cap) ==
    LET longer == <<item>> \o list
    IN  IF Len(longer) > cap THEN SubSeq(longer, 2, Len(longer)) ELSE longer

unshiftCapped(list, item, cap) ==
    LET longer == <<item>> \o list
    IN  IF Len(longer) > cap THEN SubSeq(longer, 1, cap) ELSE longer

storeAdd(l) ==
    /\ store.ops[l] < MaxStoreOps
    /\ LET item == store.created[l] + 1
       IN  store' = [store EXCEPT !.lists[l] = unshiftCapped(store.lists[l], item, capOf(l)),
                                  !.created[l] = item,
                                  !.ops[l] = store.ops[l] + 1]
    /\ UNCHANGED <<breakerVars, storeRest>>

databaseCreateFeedback == storeAdd("feedback")

createTaskLog == storeAdd("taskLogs")

recordTokenUsage == storeAdd("tokenUsage")

recordCircuitBreakerEvent == storeAdd("circuitBreakerEvents")

NextStore ==
    \/ databaseCreateFeedback
    \/ createTaskLog
    \/ recordTokenUsage
    \/ recordCircuitBreakerEvent

SpecStore == InitStore /\ [][NextStore]_vars

(* C30: after any sequence of create and record operations each list of    *)
(* the Store is within its cap (feedback 1000, task logs 1000, token usage *)
(* 5000, breaker events 1000), and the records it holds are the most       *)
(* recently created ones, newest first: what was dropped is the oldest.    *)
C30_ListsCapped ==
    \A l \in StoreLists :
        /\ Len(store.lists[l]) <= capOf(l)
        /\ Len(store.lists[l]) = IF store.created[l] < capOf(l)
                                 THEN store.created[l] ELSE capOf(l)
        /\ \A i \in 1..Len(store.lists[l]) : store.lists[l][i] = store.created[l] - i + 1

(* every list has gone over its cap and dropped its first record           *)
C30_Witness ==
    \A l \in StoreLists :
        /\ store.created[l] > capOf(l)
        /\ store.ops[l] > 0
        /\ Len(store.lists[l]) = capOf(l)
        /\ store.lists[l][capOf(l)] = store.created[l] - capOf(l) + 1
----------------------------------------------------------------------------
(* Further properties of the breaker's accounting, under Spec.             *)

(* C33: the tokens reserved for a registered task never exceed             *)
(* MAX_TASK_TOKENS, whether the check that registered the task or a later  *)
(* check on it made the reservation.                                       *)
C33_TaskTokensWithinLimit ==
    \A k \in DOMAIN usage.tasks : usage.tasks[k].tokens <= config.MAX_TASK_TOKENS

(* C38: concurrentTasks is the number of entries of the task map, after    *)
(* any checks, releases and expiries of the cleanup timer.                 *)
C38_ConcurrentTasksIsMapSize ==
    usage.concurrentTasks = Cardinality(DOMAIN usage.tasks)

(* a task registered after the clock passed the expiry of earlier          *)
(* reservations, whose tokens are still counted in the daily total         *)
C38_Witness ==
    /\ now > TASK_EXPIRY_MS
    /\ usage.concurrentTasks = 1
    /\ \E k \in DOMAIN usage.tasks :
          /\ usage.tasks[k].createdAt = now
          /\ usage.dailyTokens > usage.tasks[k].tokens
    /\ AllowedCount >= 2

(* C39: a check that returns allowed = false leaves dailyTokens,           *)
(* concurrentTasks and the task map as they were.                          *)
C39_DeniedCheckReservesNothing ==
    [][\A e \in EstimateChoices, k \in TaskIds \cup {NoTask} :
          (Check(e, k) /\ ~ret'.ok) =>
              /\ usage'.dailyTokens = usage.dailyTokens
              /\ usage'.concurrentTasks = usage.concurrentTasks
              /\ usage'.tasks = usage.tasks]_vars

(* a check was denied while tokens and a task were reserved                *)
C39_Witness ==
    /\ ret.op = "check"
    /\ ~ret.ok
    /\ ret.reason = "TASK_TOKEN_LIMIT"
    /\ usage.dailyTokens > 0
    /\ usage.concurrentTasks > 0
----------------------------------------------------------------------------
(* GET /api/agent/task-logs (server/app.js) over Database.getTaskLogs: the *)
(* task logs are created by createTaskLog and queried with any             *)
(* combination of the parameters.                                          *)
MaxLogs == 2
LogTaskIds == {"t1", "t2"}
LogFeedbackIds == {"fb1", "fb2"}
LogStatuses == {"pending", "completed"}
LogLimits == {1, 20}
TaskLogs == [taskId : LogTaskIds, feedbackId : LogFeedbackIds, status : LogStatuses]
Queries == [limit : LogLimits, taskId : LogTaskIds \cup {""},
            feedbackId : LogFeedbackIds \cup {""}, status : LogStatuses \cup {""}]

logsRest == <<admitT, admitOutcome, pairState, pairTask, sumActual, agent, stream, duo, call, req, tester, work, disk, store, stages, rw, cb, smart, repo>>

InitLogs == BreakerStart(DefaultConfig) /\ NoClients

(* createTaskLog(taskLog): the record is put at the head of the list       *)
logTask(taskLog) ==
    /\ Len(logs.list) < MaxLogs
    /\ logs' = [logs EXCEPT !.list = <<taskLog>> \o logs.list, !.answered = FALSE]
    /\ UNCHANGED <<breakerVars, logsRest>>

(* Array.prototype.slice(0, limit)                                         *)
sliceTo(list, limit) == SubSeq(list, 1, IF limit < Len(list) THEN limit ELSE Len(list))

(* getTaskLogs(options): options.taskId is not among the options read      *)
getTaskLogs(list, options) ==
    LET byFeedback == IF options.feedbackId # ""
                      THEN SelectSeq(list, LAMBDA t : t.feedbackId = options.feedbackId)
                      ELSE list
        byStatus == IF options.status # ""
                    THEN SelectSeq(byFeedback, LAMBDA t : t.status = options.status)
                    ELSE byFeedback
    IN  [list |-> sliceTo(byStatus, options.limit), total |-> Len(byStatus)]

(* the route: the query parameters are passed on, the result is the data   *)
(* of the answer                                                           *)
getTaskLogsRoute(query) ==
    /\ logs' = [logs EXCEPT !.answered = TRUE, !.query = query,
                            !.data = getTaskLogs(logs.list, query)]
    /\ UNCHANGED <<breakerVars, logsRest>>

NextLogs ==
    \/ \E taskLog \in TaskLogs : logTask(taskLog)
    \/ \E query \in Queries : getTaskLogsRoute(query)

SpecLogs == InitLogs /\ [][NextLogs]_vars

Matches(t, query) ==
    /\ query.taskId # "" => t.taskId = query.taskId
    /\ query.feedbackId # "" => t.feedbackId = query.feedbackId
    /\ query.status # "" => t.status = query.status

(* C31: the answer to a query with a taskId holds only task records with   *)
(* that taskId, likewise for feedbackId and status, and its total is the   *)
(* number of task records that match the parameters given.                 *)
C31_TaskLogsFiltered ==
    logs.answered =>
        /\ \A i \in 1..Len(logs.data.list) : Matches(logs.data.list[i], logs.query)
        /\ logs.data.total =
              Cardinality({i \in 1..Len(logs.list) : Matches(logs.list[i], logs.query)})

(* Without the taskId parameter the answer to a query with a feedbackId    *)
(* or a status holds only matching records and its total counts them.      *)
FeedbackAndStatusFiltered ==
    (logs.answered /\ logs.query.taskId = "") =>
        /\ \A i \in 1..Len(logs.data.list) : Matches(logs.data.list[i], logs.query)
        /\ logs.data.total =
              Cardinality({i \in 1..Len(logs.list) : Matches(logs.list[i], logs.query)})
----------------------------------------------------------------------------
(* The stage rows of TestService.runTests (unnamed/part_001): every        *)
(* addTaskStage of the run, on each of its outcomes.  Another service may  *)
(* hold a task in the breaker when the run starts.                         *)
StageNames == {"generate_test_cases", "run_browser_tests", "evaluate_results"}
StageDailyChoices == {1000, 2000, 2700, 3100, 1000000}
StageConcurrentChoices == {1, 10}
StageConfigs ==
    {[DefaultConfig EXCEPT !.MAX_DAILY_TOKENS = d, !.MAX_CONCURRENT_TASKS = c] :
        d \in StageDailyChoices, c \in StageConcurrentChoices}
StageTask == "test_1"
OtherTask == "modify_1"

stagesRest == <<admitT, admitOutcome, pairState, pairTask, sumActual, agent, stream, duo, call, req, tester, work, disk, store, logs, rw, cb, smart, repo>>

InitStages == (\E cfg \in StageConfigs : BreakerStart(cfg)) /\ NoClients

(* database.addTaskStage(taskId, { name, status }): the row is pushed      *)
addTaskStage(rows, name, status) == Append(rows, [name |-> name, status |-> status])

(* a check of the run: the breaker after it and the run after it           *)
StageCheck(est, taskId, onAllowed, onDenied) ==
    LET r == check(usage, circuitState, events, now, est, taskId)
    IN  /\ usage' = r.usage
        /\ circuitState' = r.circuitState
        /\ events' = r.events
        /\ ret' = [op |-> "check", ok |-> r.allowed, reason |-> r.reason]
        /\ stages' = IF r.allowed THEN onAllowed ELSE onDenied
        /\ UNCHANGED <<now, advances, config, stagesRest>>

(* another service registered its task before the run                      *)
stageOtherTask ==
    /\ stages.pc = "none"
    /\ OtherTask \notin DOMAIN usage.tasks
    /\ Check(0, OtherTask)

(* createTaskLog, then the started row of generate_test_cases              *)
runTestsStart ==
    /\ stages.pc = "none"
    /\ stages' = [stages EXCEPT !.pc = "check",
                     !.rows = addTaskStage(stages.rows, "generate_test_cases", "started")]
    /\ UNCHANGED <<breakerVars, stagesRest>>

(* check('test_service', 'test_run', 0, taskId); denied, the failed row of *)
(* generate_test_cases and the return                                      *)
runTestsCheck ==
    /\ stages.pc = "check"
    /\ StageCheck(0, StageTask,
                  [stages EXCEPT !.pc = "generateTestCases"],
                  [stages EXCEPT !.pc = "done", !.result = "denied",
                       !.rows = addTaskStage(stages.rows, "generate_test_cases", "failed")])

(* the catch of runTests: whatever was thrown inside the try, the failed   *)
(* row is written for run_browser_tests                                    *)
runTestsCatch(st) ==
    [st EXCEPT !.pc = "done", !.result = "error",
               !.rows = addTaskStage(st.rows, "run_browser_tests", "failed")]

(* generateTestCases: check(1500, null); denied, it throws                 *)
stageGenerateCheck ==
    /\ stages.pc = "generateTestCases"
    /\ StageCheck(1500, NoTask, [stages EXCEPT !.pc = "generateCallLLM"],
                  runTestsCatch(stages))

(* generateTestCases, callLLM with maxTokens 1000: denied, it throws       *)
stageGenerateCallLLM ==
    /\ stages.pc = "generateCallLLM"
    /\ StageCheck(maxTokens("generateTestCases"), NoTask,
                  [stages EXCEPT !.pc = "generateAxios"],
                  runTestsCatch(stages))

(* the model answered: the completed row of generate_test_cases and the    *)
(* started row of run_browser_tests; or the request failed and callLLM     *)
(* threw                                                                   *)
stageGenerated(ok) ==
    /\ stages.pc = "generateAxios"
    /\ stages' = IF ok
                 THEN [stages EXCEPT !.pc = "runBrowserTests",
                          !.rows = addTaskStage(
                                      addTaskStage(stages.rows, "generate_test_cases", "completed"),
                                      "run_browser_tests", "started")]
                 ELSE runTestsCatch(stages)
    /\ UNCHANGED <<breakerVars, stagesRest>>

(* runBrowserTests returned its report: the completed row of               *)
(* run_browser_tests and the started row of evaluate_results               *)
stageBrowserTests ==
    /\ stages.pc = "runBrowserTests"
    /\ stages' = [stages EXCEPT !.pc = "evaluateTestResults",
                     !.rows = addTaskStage(
                                 addTaskStage(stages.rows, "run_browser_tests", "completed"),
                                 "evaluate_results", "started")]
    /\ UNCHANGED <<breakerVars, stagesRest>>

(* the completed row of evaluate_results, after which the run returns      *)
evaluated(st) ==
    [st EXCEPT !.pc = "done", !.result = "returned",
               !.rows = addTaskStage(st.rows, "evaluate_results", "completed")]

(* evaluateTestResults: check(500, null); denied, it returns null          *)
stageEvaluateCheck ==
    /\ stages.pc = "evaluateTestResults"
    /\ StageCheck(500, NoTask, [stages EXCEPT !.pc = "evaluateCallLLM"], evaluated(stages))

(* evaluateTestResults, callLLM with maxTokens 300: denied, it throws      *)
stageEvaluateCallLLM ==
    /\ stages.pc = "evaluateCallLLM"
    /\ StageCheck(maxTokens("evaluateTestResults"), NoTask,
                  [stages EXCEPT !.pc = "evaluateAxios"],
                  runTestsCatch(stages))

stageEvaluated(ok) ==
    /\ stages.pc = "evaluateAxios"
    /\ stages' = IF ok THEN evaluated(stages) ELSE runTestsCatch(stages)
    /\ UNCHANGED <<breakerVars, stagesRest>>

NextStages ==
    \/ stageOtherTask
    \/ runTestsStart
    \/ runTestsCheck
    \/ stageGenerateCheck
    \/ stageGenerateCallLLM
    \/ \E ok \in BOOLEAN : stageGenerated(ok)
    \/ stageBrowserTests
    \/ stageEvaluateCheck
    \/ stageEvaluateCallLLM
    \/ \E ok \in BOOLEAN : stageEvaluated(ok)

SpecStages == InitStages /\ [][NextStages]_vars

RowsOf(name, statuses) ==
    {i \in 1..Len(stages.rows) : stages.rows[i].name = name /\ stages.rows[i].status \in statuses}

(* C32: a stage has at most one terminal row (completed or failed), only   *)
(* after its started row, and once the run is over every started stage has *)
(* its terminal row: on success, on a denial of the breaker and on a       *)
(* thrown error.                                                           *)
C32_StartedThenOneTerminal ==
    \A name \in StageNames :
        LET started == RowsOf(name, {"started"})
            terminal == RowsOf(name, {"completed", "failed"})
        IN  /\ Cardinality(terminal) <= Cardinality(started)
            /\ \A i \in terminal : \E j \in started : j < i
            /\ stages.pc = "done" => Cardinality(terminal) = Cardinality(started)
----------------------------------------------------------------------------
(* withRetry of server/retry.js.  An error is what isRetryable looks at:   *)
(* its code, the status of its response (0: it has no response); n is the *)
(* call of fn that threw it.                                               *)
MaxRetriesOption == 3
RetryOptionDefaults ==
    [initialDelay |-> 1000, maxDelay |-> 10000, backoffMultiplier |-> 2,
     retryableErrors |-> {"ECONNREFUSED", "ETIMEDOUT", "ENOTFOUND", "ENETUNREACH"}]
ErrorCodes == {"ECONNREFUSED", "EPARSE"}
ErrorStatuses == {0, 400, 429, 503}
RetryConditions == {"null", "status400"}

rwRest == <<admitT, admitOutcome, pairState, pairTask, sumActual, agent, stream, duo, call, req, tester, work, disk, store, logs, stages, cb, smart, repo>>

InitRetryWrapper == BreakerStart(DefaultConfig) /\ NoClients

(* options.retryCondition(error), for the condition the caller gave         *)
retryCondition(cond, error) == cond = "status400" /\ error.status = 400

isRetryable_Always(cond, error) == TRUE

isRetryable(cond, error) ==
    \/ error.code \in RetryOptionDefaults.retryableErrors
    \/ error.status >= 500
    \/ error.status = 429
    \/ cond # "null" /\ retryCondition(cond, error)

(* withRetry(options) and the call of the wrapper: the loop starts, or     *)
(* with no attempt to make it throws lastError at once                     *)
retryWrapper(maxRetries, cond) ==
    /\ rw.pc = "none"
    /\ rw' = [NoRetry EXCEPT !.pc = IF 1 <= maxRetries THEN "fn" ELSE "thrown",
                             !.maxRetries = maxRetries, !.retryCondition = cond,
                             !.attempt = 1, !.delay = RetryOptionDefaults.initialDelay]
    /\ UNCHANGED <<breakerVars, rwRest>>

(* fn(context) returned: the wrapper returns its result                    *)
fnReturns ==
    /\ rw.pc = "fn"
    /\ rw' = [rw EXCEPT !.pc = "returned", !.calls = Append(rw.calls, [ok |-> TRUE, error |-> NoError])]
    /\ UNCHANGED <<breakerVars, rwRest>>

(* fn(context) threw: the error is rethrown, or the wrapper waits          *)
fnThrows(code, status) ==
    /\ rw.pc = "fn"
    /\ LET error == [code |-> code, status |-> status, n |-> Len(rw.calls) + 1]
           calls == Append(rw.calls, [ok |-> FALSE, error |-> error])
       IN  rw' = IF ~isRetryable(rw.retryCondition, error) \/ rw.attempt = rw.maxRetries
                 THEN [rw EXCEPT !.pc = "thrown", !.lastError = error, !.calls = calls,
                                 !.thrown = error]
                 ELSE [rw EXCEPT !.pc = "waiting", !.lastError = error, !.calls = calls]
    /\ UNCHANGED <<breakerVars, rwRest>>

(* the timer of the delay fired: the delay grows and the next attempt      *)
(* begins, or after the last one lastError is thrown                       *)
retryTimer ==
    /\ rw.pc = "waiting"
    /\ LET grown == rw.delay * RetryOptionDefaults.backoffMultiplier
           delay == IF grown < RetryOptionDefaults.maxDelay THEN grown
                    ELSE RetryOptionDefaults.maxDelay
       IN  rw' = IF rw.attempt + 1 <= rw.maxRetries
                 THEN [rw EXCEPT !.pc = "fn", !.attempt = rw.attempt + 1, !.delay = delay]
                 ELSE [rw EXCEPT !.pc = "thrown", !.attempt = rw.attempt + 1, !.delay = delay,
                                 !.thrown = rw.lastError]
    /\ UNCHANGED <<breakerVars, rwRest>>

NextRetryWrapper ==
    \/ \E maxRetries \in 0..MaxRetriesOption, cond \in RetryConditions : retryWrapper(maxRetries, cond)
    \/ fnReturns
    \/ \E code \in ErrorCodes, status \in ErrorStatuses : fnThrows(code, status)
    \/ retryTimer

SpecRetryWrapper == InitRetryWrapper /\ [][NextRetryWrapper]_vars

(* what isRetryable is documented to accept: the listed codes, a status    *)
(* of 500 or more, 429, and what the caller's condition accepts            *)
Retryable(error) ==
    \/ error.code \in {"ECONNREFUSED", "ETIMEDOUT", "ENOTFOUND", "ENETUNREACH"}
    \/ error.status >= 500
    \/ error.status = 429
    \/ rw.retryCondition = "status400" /\ error.status = 400

(* C34: the wrapper calls fn at most maxRetries times; every call but the  *)
(* last failed with a retryable error; it returns when fn returns; it      *)
(* throws the error of the last call, which is not retryable or is that of *)
(* call maxRetries (with maxRetries below 1 there is no call and no error  *)
(* to rethrow).                                                            *)
C34_AtMostMaxRetries ==
    LET n == Len(rw.calls)
    IN  /\ n <= rw.maxRetries
        /\ \A i \in 1..(n - 1) : ~rw.calls[i].ok /\ Retryable(rw.calls[i].error)
        /\ rw.pc = "returned" => n >= 1 /\ rw.calls[n].ok
        /\ (rw.pc = "thrown" /\ rw.maxRetries >= 1) =>
              /\ n >= 1 /\ ~rw.calls[n].ok
              /\ rw.thrown = rw.calls[n].error
              /\ ~Retryable(rw.calls[n].error) \/ n = rw.maxRetries
        /\ rw.pc \in {"waiting", "fn"} => n < rw.maxRetries
        /\ rw.pc = "waiting" => ~rw.calls[n].ok /\ Retryable(rw.calls[n].error)

(* three retryable failures with maxRetries 3: the third error was thrown  *)
C34_Witness ==
    /\ rw.pc = "thrown" /\ rw.maxRetries = 3 /\ Len(rw.calls) = 3
    /\ rw.thrown.n = 3 /\ rw.thrown.status = 429
----------------------------------------------------------------------------
(* CircuitBreaker of server/retry.js under concurrent callers of execute:  *)
(* the synchronous part of execute up to the await of fn is one step, the  *)
(* completion of fn with onSuccess or onFailure another.  The failure      *)
(* threshold is an option of the constructor, small here.                  *)
MaxExecutes == 6
MaxCbAdvances == 2
CbOptions == [failureThreshold |-> 2, successThreshold |-> 2, timeout |-> 60000]

cbRest == <<admitT, admitOutcome, pairState, pairTask, sumActual, agent, stream, duo, call, req, tester, work, disk, store, logs, stages, rw, smart, repo>>

InitCb == BreakerStart(DefaultConfig) /\ NoClients

(* execute(fn) up to the await: rejected while OPEN before nextAttempt,    *)
(* otherwise fn is invoked, from OPEN after entering HALF_OPEN             *)
execute(c) ==
    /\ cb.calls[c].pc = "idle"
    /\ cb.stats.totalCalls < MaxExecutes
    /\ LET counted == [cb EXCEPT !.stats.totalCalls = cb.stats.totalCalls + 1]
       IN  cb' = IF cb.state = "OPEN" /\ now < cb.nextAttempt
                 THEN [counted EXCEPT !.stats.rejectedCalls = cb.stats.rejectedCalls + 1,
                                      !.calls[c].last = "rejected"]
                 ELSE IF cb.state = "OPEN"
                 THEN [counted EXCEPT !.state = "HALF_OPEN", !.successes = 0,
                                      !.period = cb.period + 1, !.wins = 0,
                                      !.calls[c] = [pc |-> "fn", admittedIn |-> "HALF_OPEN",
                                                    period |-> cb.period + 1, last |-> ""]]
                 ELSE [counted EXCEPT !.calls[c] = [pc |-> "fn", admittedIn |-> cb.state,
                                                    period |-> cb.period, last |-> ""]]
    /\ UNCHANGED <<breakerVars, cbRest>>

(* onSuccess()                                                             *)
onSuccess(b) ==
    LET counted == [b EXCEPT !.stats.successfulCalls = b.stats.successfulCalls + 1]
    IN  IF b.state = "HALF_OPEN"
        THEN IF b.successes + 1 >= CbOptions.successThreshold
             THEN [counted EXCEPT !.successes = b.successes + 1, !.state = "CLOSED",
                                  !.failures = 0]
             ELSE [counted EXCEPT !.successes = b.successes + 1]
        ELSE [counted EXCEPT !.failures = 0]

(* onFailure() at time t                                                   *)
onFailure(b, t) ==
    LET counted == [b EXCEPT !.stats.failedCalls = b.stats.failedCalls + 1,
                             !.failures = b.failures + 1]
    IN  IF b.state = "HALF_OPEN" \/ b.failures + 1 >= CbOptions.failureThreshold
        THEN [counted EXCEPT !.state = "OPEN", !.nextAttempt = t + CbOptions.timeout]
        ELSE counted

(* fn resolved: onSuccess, and execute returns the result                  *)
fnResolved(c) ==
    /\ cb.calls[c].pc = "fn"
    /\ LET inPeriod == cb.calls[c].admittedIn = "HALF_OPEN" /\ cb.calls[c].period = cb.period
       IN  cb' = [onSuccess(cb) EXCEPT !.calls[c].pc = "idle", !.calls[c].last = "returned",
                                       !.streak = 0,
                                       !.wins = IF inPeriod THEN cb.wins + 1 ELSE cb.wins]
    /\ UNCHANGED <<breakerVars, cbRest>>

(* fn rejected: onFailure, and execute rethrows                            *)
fnRejected(c) ==
    /\ cb.calls[c].pc = "fn"
    /\ cb' = [onFailure(cb, now) EXCEPT !.calls[c].pc = "idle", !.calls[c].last = "thrown",
                                        !.streak = cb.streak + 1]
    /\ UNCHANGED <<breakerVars, cbRest>>

cbTimePasses ==
    /\ advances < MaxCbAdvances
    /\ AdvanceClock(CbOptions.timeout)

NextCb ==
    \/ \E c \in CbCallers : execute(c)
    \/ \E c \in CbCallers : fnResolved(c)
    \/ \E c \in CbCallers : fnRejected(c)
    \/ cbTimePasses

SpecCb == InitCb /\ [][NextCb]_vars

(* C35: under any interleaving of the callers the breaker leaves CLOSED    *)
(* for OPEN only when failureThreshold failures came with no success in    *)
(* between; an execute while OPEN before nextAttempt is rejected without   *)
(* invoking fn; the breaker returns to CLOSED only when successThreshold   *)
(* calls admitted in HALF_OPEN have succeeded, and a failure in HALF_OPEN  *)
(* opens it again.                                                         *)
C35_ThreeStateMachine ==
    [][/\ (cb.state = "CLOSED" /\ cb'.state = "OPEN") =>
              cb'.streak >= CbOptions.failureThreshold
       /\ \A c \in CbCallers :
              (execute(c) /\ cb.state = "OPEN" /\ now < cb.nextAttempt) =>
                  cb'.calls[c].pc = "idle" /\ cb'.calls[c].last = "rejected"
                  /\ cb'.state = "OPEN"
       /\ (cb.state # "CLOSED" /\ cb'.state = "CLOSED") =>
              cb.state = "HALF_OPEN" /\ cb'.wins >= CbOptions.successThreshold
       /\ \A c \in CbCallers :
              (fnRejected(c) /\ cb.state = "HALF_OPEN") => cb'.state = "OPEN"]_vars

(* The same without the count of the calls admitted in HALF_OPEN.          *)
ThreeStateMachineButWins ==
    [][/\ (cb.state = "CLOSED" /\ cb'.state = "OPEN") =>
              cb'.streak >= CbOptions.failureThreshold
       /\ \A c \in CbCallers :
              (execute(c) /\ cb.state = "OPEN" /\ now < cb.nextAttempt) =>
                  cb'.calls[c].pc = "idle" /\ cb'.calls[c].last = "rejected"
                  /\ cb'.state = "OPEN"
       /\ (cb.state # "CLOSED" /\ cb'.state = "CLOSED") =>
              cb.state = "HALF_OPEN" /\ cb'.successes >= CbOptions.successThreshold
       /\ \A c \in CbCallers :
              (fnRejected(c) /\ cb.state = "HALF_OPEN") => cb'.state = "OPEN"]_vars
----------------------------------------------------------------------------
(* SmartTestSystem.runSmartTest with DecisionEngine (server/               *)
(* smart-test-system.js).  A test function returns a result of status      *)
(* passed or failed; an attempt is modelled by the number of its results   *)
(* that passed.  Pass rates are compared in tenths.                        *)
MaxTests == 5
SmartAttemptChoices == {1, 3, 4}
DecisionOptions == [maxRetries |-> 3, retryDelay |-> 2000]

smartRest == <<admitT, admitOutcome, pairState, pairTask, sumActual, agent, stream, duo, call, req, tester, work, disk, store, logs, stages, rw, cb, repo>>

InitSmart == BreakerStart(DefaultConfig) /\ NoClients

(* DecisionEngine.analyze(testResults), for n results of which p passed    *)
decisionAnalyze(n, p) ==
    LET failed == n - p
    IN  [passed |-> p, failed |-> failed,
         isPassing |-> (n > 0 /\ 10 * p >= 8 * n),
         shouldRetry |-> (failed > 0 /\ 2 * failed < n),
         shouldRollback |-> (n = 0 \/ 10 * p < 3 * n),
         shouldAbort |-> (n = 0 \/ p = 0)]

(* DecisionEngine.getRecommendation(analysis, attemptNumber): the action   *)
getRecommendation(analysis, attemptNumber) ==
    IF analysis.shouldAbort THEN "abort"
    ELSE IF analysis.shouldRollback THEN "rollback"
    ELSE IF analysis.shouldRetry /\ attemptNumber < DecisionOptions.maxRetries THEN "retry"
    ELSE IF attemptNumber >= DecisionOptions.maxRetries THEN "abort"
    ELSE "continue"

(* runSmartTest up to the loop: the snapshot before the test and the       *)
(* latest snapshot there is, if any                                        *)
runSmartTest(n, maxAttempts, lastStable) ==
    /\ smart.pc = "none"
    /\ smart' = [NoSmart EXCEPT !.pc = "runTests", !.maxAttempts = maxAttempts, !.tests = n,
                                !.lastStable = lastStable, !.attempt = 1]
    /\ UNCHANGED <<breakerVars, smartRest>>

(* the return after the loop                                               *)
exhausted_NotMarked(s) == [s EXCEPT !.pc = "returned", !.success = FALSE]

exhausted(s) == [s EXCEPT !.pc = "returned", !.success = FALSE, !.aborted = TRUE]

(* one attempt: the test functions run, the results are analysed and the   *)
(* decision is carried out up to its return or its delay                   *)
smartAttempt(p) ==
    /\ smart.pc = "runTests"
    /\ LET analysis == decisionAnalyze(smart.tests, p)
           decision == getRecommendation(analysis, smart.attempt)
           ran == [smart EXCEPT !.runs = smart.runs + 1, !.passed = p,
                                !.decisions = Append(smart.decisions, decision)]
           restored == IF smart.lastStable THEN smart.restores + 1 ELSE smart.restores
       IN  smart' =
             CASE decision = "continue" -> [ran EXCEPT !.pc = "returned", !.success = TRUE]
               [] decision = "retry" -> [ran EXCEPT !.pc = "delay"]
               [] decision = "rollback" -> [ran EXCEPT !.pc = "delay", !.restores = restored]
               [] decision = "abort" -> [ran EXCEPT !.pc = "returned", !.success = FALSE,
                                                    !.aborted = TRUE, !.restores = restored]
    /\ UNCHANGED <<breakerVars, smartRest>>

(* the delay is over: the next attempt, or the end of the loop             *)
smartDelay ==
    /\ smart.pc = "delay"
    /\ smart' = IF smart.attempt + 1 <= smart.maxAttempts
                THEN [smart EXCEPT !.pc = "runTests", !.attempt = smart.attempt + 1]
                ELSE exhausted([smart EXCEPT !.attempt = smart.attempt + 1])
    /\ UNCHANGED <<breakerVars, smartRest>>

NextSmart ==
    \/ \E n \in 0..MaxTests, maxAttempts \in SmartAttemptChoices, lastStable \in BOOLEAN :
            runSmartTest(n, maxAttempts, lastStable)
    \/ \E p \in 0..smart.tests : smartAttempt(p)
    \/ smartDelay

SpecSmart == InitSmart /\ [][NextSmart]_vars

(* the steps of a call that has begun are taken                            *)
SpecSmartLive == SpecSmart /\ WF_vars(smartDelay) /\ WF_vars(\E p \in 0..smart.tests : smartAttempt(p))

(* C36: a call of runSmartTest returns, having run the test functions at   *)
(* most maxAttempts times, whatever their results; when it returns         *)
(* success = false the feature is in abortedFeatures.                      *)
C36_TerminatesAndMarksAborted ==
    /\ [](smart.runs <= smart.maxAttempts)
    /\ []((smart.pc = "returned" /\ ~smart.success) => smart.aborted)
    /\ (smart.pc # "none") ~> (smart.pc = "returned")

(* the loop ended after three attempts without a return inside it          *)
C36_Witness ==
    /\ smart.pc = "returned" /\ ~smart.success /\ smart.aborted
    /\ smart.maxAttempts = 3 /\ smart.runs = 3 /\ smart.attempt = 4

(* C37: runSmartTest returns success = true for an attempt if and only if  *)
(* at least 80% of that attempt's results passed, whatever the number of   *)
(* the attempt.                                                            *)
C37_SuccessIffPassing ==
    smart.pc = "returned" =>
        (smart.success <=> (smart.tests > 0 /\ 10 * smart.passed >= 8 * smart.tests))
----------------------------------------------------------------------------
(* CodeModifier.applyChanges and git: what the branch of each feedback     *)
(* holds.  The part of applyChanges from ensureRepo to the commit runs     *)
(* without an await and is one step.                                       *)
BranchOf(i) == IF i = 1 THEN "feedback-1" ELSE IF i = 2 THEN "feedback-2" ELSE "feedback-3"

repoRest == <<admitT, admitOutcome, pairState, pairTask, sumActual, agent, stream, duo, call, req, tester, work, disk, store, logs, stages, rw, cb, smart>>

InitRepo == BreakerStart(DefaultConfig) /\ NoClients

(* applyChanges up to the try: the task log, the started row, the check    *)
modifyStart(i) ==
    /\ repo.runs[i] = "none"
    /\ repo' = [repo EXCEPT !.runs[i] = "started"]
    /\ UNCHANGED <<breakerVars, repoRest>>

(* git checkout -b branchName: the new branch starts at the commit of HEAD *)
(* and the working tree is kept                                            *)
gitCheckoutNew(r, branch) ==
    [r EXCEPT !.commits = [b \in DOMAIN r.commits \cup {branch} |->
                              IF b = branch THEN r.commits[r.head] ELSE r.commits[b]],
              !.head = branch]

(* git add -A; git commit: the tip of HEAD becomes the working tree        *)
gitCommit(r) == [r EXCEPT !.commits[r.head] = r.worktree]

(* the try of applyChanges: the branch, the file written when the solution *)
(* names a file and a code block, the commit, which may fail               *)
modifyApply(i, actualChange, commitOk) ==
    /\ repo.runs[i] = "started"
    /\ LET onBranch == gitCheckoutNew(repo, BranchOf(i))
           written == IF actualChange
                      THEN [onBranch EXCEPT !.worktree = onBranch.worktree \cup {i}]
                      ELSE onBranch
           done == IF actualChange /\ commitOk
                   THEN [gitCommit(written) EXCEPT !.committed = written.committed \cup {i}]
                   ELSE written
       IN  repo' = [done EXCEPT !.runs[i] = "modified"]
    /\ UNCHANGED <<breakerVars, repoRest>>

NextRepo ==
    \/ \E i \in RepoFeedbacks : modifyStart(i)
    \/ \E i \in RepoFeedbacks, actualChange \in BOOLEAN, commitOk \in BOOLEAN :
            modifyApply(i, actualChange, commitOk)

SpecRepo == InitRepo /\ [][NextRepo]_vars

(* C40: the branch of a feedback starts at the baseline: the commit on it  *)
(* holds the change of that feedback and of no other, whatever was         *)
(* modified before or is being processed at the same time.                 *)
C40_BranchHoldsOwnChangeOnly ==
    \A i \in repo.committed : repo.commits[BranchOf(i)] = {i}
====
